---------------------------- MODULE Spec2Model ----------------------------
(***************************************************************************)
(* State-replication subsystem of cavetronic: the frame framer             *)
(* (packDelta/unpackDelta/packSnapshot/unpackSnapshot), the FIFO queues,   *)
(* the HostTransport router, the server tick (LECS) and the client tick    *)
(* (VECS).                                                                 *)
(*                                                                         *)
(* Numbers.  A JavaScript number that may exceed 2^31 (the frame counter   *)
(* and everything read from a Uint32 field) is kept as a pair <<hi, lo>>   *)
(* with value hi * 65536 + lo, 0 <= lo < 65536.  -1 is <<-1, 65535>>.      *)
(* Byte buffers (ArrayBuffer) are sequences of numbers.                    *)
(***************************************************************************)
EXTENDS Integers, Sequences, FiniteSets, TLC

VARIABLES
    fIn,        \* frame framer: the arguments handed to pack*
    fBuf,       \* frame framer: the packed ArrayBuffer
    fOut,       \* frame framer: what unpack* returned
    fPc,        \* frame framer: "in" | "packed" | "unpacked"
    qWhich,     \* queues: the queue object under exercise
    qConn,      \* ConnectionQueue.queue
    qHost,      \* HostMessageQueue.queue
    qMsg,       \* MessageQueue.queue
    qPushed,    \* queues: every event pushed so far, in push order
    qBatches,   \* queues: the arrays returned by the drain calls so far
    qDrained,   \* queues: TRUE from a drain until the next push
    ht,         \* the HostTransport object (its five private fields)
    chans,      \* the ITransport channels handed to addClient, by channel id
    hFired,     \* router: the <<userId, channel>> whose connect observers were fired
    hLast,      \* router: the last inbound delivery and the handler calls it caused
    lecs,       \* the server world: services of createLecs, entities, serializers
    gTicks,     \* server: number of ticks run
    gDeltas,    \* server: the frame read back from every Delta handed to broadcast
    gSnaps,     \* server: the Snapshots of the last tick, each with the last Delta frame
    gConnects,  \* server: the connect events drained so far, with the channel served
    gEntities,  \* server: the number of entities at the end of every tick
    vecs,       \* the client worlds, one per channel
    rLast       \* router: the last operation, the state before it and what it caused

frameVars == <<fIn, fBuf, fOut, fPc>>

queueVars == <<qWhich, qConn, qHost, qMsg, qPushed, qBatches, qDrained>>

hostVars == <<ht, chans, hFired, hLast>>

serverVars == <<lecs, gTicks, gDeltas, gSnaps, gConnects, gEntities>>

routerVars == <<rLast>>

vars == <<frameVars, queueVars, hostVars, serverVars, vecs, routerVars>>

---------------------------------------------------------------------------
(* The parts of the state a specification does not exercise stay idle. *)

FrameIdle ==
    /\ fIn = [kind |-> "none"]
    /\ fBuf = <<>>
    /\ fOut = <<>>
    /\ fPc = "off"

QueueIdle ==
    /\ qWhich = "none"
    /\ qConn = <<>> /\ qHost = <<>> /\ qMsg = <<>>
    /\ qPushed = <<>> /\ qBatches = <<>> /\ qDrained = FALSE

\* new HostTransport(): no client, no observer.
HostTransport_new ==
    [ clients            |-> <<>>,
      unsubscribes       |-> <<>>,
      messageHandlers    |-> <<>>,
      connectHandlers    |-> <<>>,
      disconnectHandlers |-> <<>> ]

HostIdle ==
    /\ ht = HostTransport_new
    /\ chans = <<>>
    /\ hFired = {}
    /\ hLast = [chan |-> 0]

ServerIdle ==
    /\ lecs = [frame |-> <<0, 0>>]
    /\ gTicks = 0
    /\ gDeltas = <<>>
    /\ gSnaps = {}
    /\ gConnects = <<>>
    /\ gEntities = <<>>

ClientIdle == vecs = <<>>

RouterIdle == rLast = [op |-> "none"]

---------------------------------------------------------------------------
(* Wide numbers *)

Limb == 256 * 256

NumOf(n) == <<n \div Limb, n % Limb>>

NumLE(a, b) == a[1] < b[1] \/ (a[1] = b[1] /\ a[2] <= b[2])

NumLT(a, b) == a[1] < b[1] \/ (a[1] = b[1] /\ a[2] < b[2])

NumAdd(a, k) == <<a[1] + ((a[2] + k) \div Limb), (a[2] + k) % Limb>>

MinusOne == <<-1, Limb - 1>>

Min(a, b) == IF a < b THEN a ELSE b

---------------------------------------------------------------------------
(* DataView / ArrayBuffer primitives *)

\* DataView.setUint32(offset, value, littleEndian = true): the four bytes of
\* ToUint32(value), least significant first.
Uint32Bytes(n) ==
    << n[2] % 256, n[2] \div 256, n[1] % 256, (n[1] \div 256) % 256 >>

\* DataView.getUint32(offset, true) on a buffer that holds offset + 4 bytes.
GetUint32(buffer, offset) ==
    << buffer[offset + 3] + 256 * buffer[offset + 4],
       buffer[offset + 1] + 256 * buffer[offset + 2] >>

\* ArrayBuffer.slice clamps its indices to [0, byteLength].
ClampIndex(n, len) ==
    IF n[1] < 0 THEN 0 ELSE IF n[1] > 0 THEN len ELSE Min(n[2], len)

ArrayBufferSlice(buffer, begin, end) ==
    SubSeq(buffer, ClampIndex(begin, Len(buffer)) + 1, ClampIndex(end, Len(buffer)))

\* A DataView read past the end of the buffer throws.
RangeError == [error |-> "RangeError"]

---------------------------------------------------------------------------
(* frameDelta.ts *)

packDelta_lenBigEndian(frame, observer, soa) ==
    LET l == Uint32Bytes(NumOf(Len(observer)))
    IN  Uint32Bytes(frame) \o <<l[4], l[3], l[2], l[1]>> \o observer \o soa

packDelta(frame, observer, soa) ==
    Uint32Bytes(frame) \o Uint32Bytes(NumOf(Len(observer))) \o observer \o soa

unpackDelta(buffer) ==
    IF Len(buffer) < 8 THEN RangeError
    ELSE LET frame       == GetUint32(buffer, 0)
             observerLen == GetUint32(buffer, 4)
         IN  [ frame    |-> frame,
               observer |-> ArrayBufferSlice(buffer, NumOf(8), NumAdd(observerLen, 8)),
               soa      |-> ArrayBufferSlice(buffer, NumAdd(observerLen, 8),
                                             NumOf(Len(buffer))) ]

packSnapshot(frame, snapshot) == Uint32Bytes(frame) \o snapshot

unpackSnapshot(buffer) ==
    IF Len(buffer) < 4 THEN RangeError
    ELSE [ frame    |-> GetUint32(buffer, 0),
           snapshot |-> ArrayBufferSlice(buffer, NumOf(4), NumOf(Len(buffer))) ]

---------------------------------------------------------------------------
(* Message identifiers (constants.ts) *)

MSG_DELTA == 1

MSG_SNAPSHOT == 3

MSG_USER_INPUT == 11

---------------------------------------------------------------------------
(* ConnectionQueue.ts, HostMessageQueue.ts, MessageQueue.ts.  A drain      *)
(* returns the array that was the queue and leaves a new empty array.      *)

ConnectionQueue_pushConnect(queue, userId) ==
    Append(queue, [userId |-> userId, type |-> "connect"])

ConnectionQueue_pushDisconnect(queue, userId) ==
    Append(queue, [userId |-> userId, type |-> "disconnect"])

ConnectionQueue_drain_keeps(queue) == [events |-> queue, queue |-> queue]

ConnectionQueue_drain(queue) == [events |-> queue, queue |-> <<>>]

HostMessageQueue_push(queue, userId, messageId, data) ==
    Append(queue, [userId |-> userId, messageId |-> messageId, data |-> data])

HostMessageQueue_drain(queue) == [messages |-> queue, queue |-> <<>>]

MessageQueue_push(queue, messageId, data) ==
    Append(queue, [messageId |-> messageId, data |-> data])

MessageQueue_drain(queue) == [result |-> queue, queue |-> <<>>]

---------------------------------------------------------------------------
(* JavaScript Map and Set keep insertion order: a Map is a sequence of     *)
(* [key, val] entries, a Set a sequence without repetition.                *)

RECURSIVE MapIndex(_, _)
MapIndex(m, k) ==
    IF m = <<>> THEN 0
    ELSE IF m[Len(m)].key = k /\ MapIndex(SubSeq(m, 1, Len(m) - 1), k) = 0 THEN Len(m)
    ELSE MapIndex(SubSeq(m, 1, Len(m) - 1), k)

MapHas(m, k) == MapIndex(m, k) > 0

MapGet(m, k) == m[MapIndex(m, k)].val

MapSet(m, k, v) ==
    IF MapHas(m, k) THEN [m EXCEPT ![MapIndex(m, k)].val = v]
    ELSE Append(m, [key |-> k, val |-> v])

MapDelete(m, k) == SelectSeq(m, LAMBDA e : e.key # k)

MapKeys(m) == { m[i].key : i \in 1..Len(m) }

SetHas(s, x) == \E i \in 1..Len(s) : s[i] = x

SetAdd(s, x) == IF SetHas(s, x) THEN s ELSE Append(s, x)

SetDelete(s, x) == SelectSeq(s, LAMBDA e : e # x)

RECURSIVE Concat(_)
Concat(seqs) == IF seqs = <<>> THEN <<>> ELSE Head(seqs) \o Concat(Tail(seqs))

---------------------------------------------------------------------------
(* ITransport: a point-to-point channel.  handlers are the callbacks given *)
(* to onMessage and not yet unsubscribed, out the messages handed to send. *)

Channel_new == [handlers |-> <<>>, destroyed |-> FALSE, out |-> <<>>]

\* connection.onMessage(cb)
Channel_onMessage(chs, c, cb) == [chs EXCEPT ![c].handlers = SetAdd(@, cb)]

\* the function onMessage returned
Channel_unsubscribe(chs, c, cb) == [chs EXCEPT ![c].handlers = SetDelete(@, cb)]

\* connection.send(messageId, data)
Channel_send(chs, c, messageId, data) ==
    [chs EXCEPT ![c].out = Append(@, [messageId |-> messageId, data |-> data])]

\* connection.destroy(): the listener is removed and the handlers cleared.
Channel_destroy(chs, c) == [chs EXCEPT ![c].handlers = <<>>, ![c].destroyed = TRUE]

---------------------------------------------------------------------------
(* HostTransport.ts.  The callback addClient gives to connection.onMessage *)
(* is the closure [userId, chan]; when the channel delivers (messageId,    *)
(* data) the closure calls every message handler with its userId.  Each    *)
(* operation returns the new router, the new channels and, in order, the   *)
(* observer calls it made.                                                 *)

\* The closure of addClient, lines 52-56, run on an inbound message.
Closure_run(t, cb, messageId, data) ==
    [ i \in 1..Len(t.messageHandlers) |->
        [ kind |-> "message", handler |-> t.messageHandlers[i], userId |-> cb.userId,
          messageId |-> messageId, data |-> data ] ]

\* The channel delivers an inbound message to the callbacks subscribed to it.
Channel_deliver(t, chs, c, messageId, data) ==
    IF chs[c].destroyed THEN <<>>
    ELSE Concat([ i \in 1..Len(chs[c].handlers) |->
                    Closure_run(t, chs[c].handlers[i], messageId, data) ])

ConnectCalls(t, userId) ==
    [ i \in 1..Len(t.connectHandlers) |->
        [kind |-> "connect", handler |-> t.connectHandlers[i], userId |-> userId] ]

DisconnectCalls(t, userId) ==
    [ i \in 1..Len(t.disconnectHandlers) |->
        [kind |-> "disconnect", handler |-> t.disconnectHandlers[i], userId |-> userId] ]

\* `during` are the inbound messages the channel delivers from within the
\* first connect observer (a channel may answer synchronously).
FireConnect(t, chs, userId, connection, during) ==
    LET cc == ConnectCalls(t, userId)
        re == Concat([ i \in 1..Len(during) |->
                         Channel_deliver(t, chs, connection, during[i].messageId,
                                         during[i].data) ])
    IN  IF cc = <<>> THEN <<>> ELSE <<Head(cc)>> \o re \o Tail(cc)

HostTransport_addClient_fireFirst(t, chs, userId, connection, during) ==
    LET cb   == [userId |-> userId, chan |-> connection]
        t1   == [t EXCEPT !.clients = MapSet(@, userId, connection)]
        chs1 == Channel_onMessage(chs, connection, cb)
        t2   == [t1 EXCEPT !.unsubscribes = MapSet(@, userId, cb)]
    IN  [ ht |-> t2, chans |-> chs1,
          calls |-> FireConnect(t1, chs, userId, connection, during) ]

HostTransport_addClient(t, chs, userId, connection, during) ==
    LET cb   == [userId |-> userId, chan |-> connection]
        t1   == [t EXCEPT !.clients = MapSet(@, userId, connection)]
        chs1 == Channel_onMessage(chs, connection, cb)
        t2   == [t1 EXCEPT !.unsubscribes = MapSet(@, userId, cb)]
    IN  [ ht |-> t2, chans |-> chs1,
          calls |-> FireConnect(t2, chs1, userId, connection, during) ]

HostTransport_removeClient_destroyFirst(t, chs, userId) ==
    LET hasUnsub == MapHas(t.unsubscribes, userId)
        cb   == MapGet(t.unsubscribes, userId)
        chs1 == IF hasUnsub THEN Channel_unsubscribe(chs, cb.chan, cb) ELSE chs
        t1   == IF hasUnsub THEN [t EXCEPT !.unsubscribes = MapDelete(@, userId)] ELSE t
    IN  IF ~MapHas(t1.clients, userId)
        THEN [ht |-> t1, chans |-> chs1, calls |-> <<>>, seen |-> chs1]
        ELSE LET client == MapGet(t1.clients, userId)
                 t2     == [t1 EXCEPT !.clients = MapDelete(@, userId)]
             IN  [ ht |-> t2, chans |-> Channel_destroy(chs1, client),
                   calls |-> DisconnectCalls(t2, userId),
                   seen |-> Channel_destroy(chs1, client) ]

\* removeClient.  seen are the channels as the disconnect observers find
\* them: unsubscribed from, not yet destroyed.
HostTransport_removeClient(t, chs, userId) ==
    LET hasUnsub == MapHas(t.unsubscribes, userId)
        cb   == MapGet(t.unsubscribes, userId)
        chs1 == IF hasUnsub THEN Channel_unsubscribe(chs, cb.chan, cb) ELSE chs
        t1   == IF hasUnsub THEN [t EXCEPT !.unsubscribes = MapDelete(@, userId)] ELSE t
    IN  IF ~MapHas(t1.clients, userId)
        THEN [ht |-> t1, chans |-> chs1, calls |-> <<>>, seen |-> chs1]
        ELSE LET client == MapGet(t1.clients, userId)
                 t2     == [t1 EXCEPT !.clients = MapDelete(@, userId)]
             IN  [ ht |-> t2, chans |-> Channel_destroy(chs1, client),
                   calls |-> DisconnectCalls(t2, userId), seen |-> chs1 ]

\* ArrayBuffers with identity: heap[ref] is the buffer ref, its bytes and
\* whether it has been detached (transferred away).
ArrayBuffer_new(bytes) == [bytes |-> bytes, detached |-> FALSE]

\* data.slice(0): a new buffer with the same bytes; a detached buffer cannot
\* be sliced.
ArrayBuffer_slice0(heap, ref) ==
    IF heap[ref].detached THEN [error |-> "TypeError", heap |-> heap, ref |-> 0]
    ELSE [ error |-> "", heap |-> Append(heap, ArrayBuffer_new(heap[ref].bytes)),
           ref |-> Len(heap) + 1 ]

\* WorkerTransportHost.send: postMessage({messageId, data}, [data]) hands the
\* bytes to the other side and detaches data; a detached buffer cannot be
\* transferred.
WorkerTransportHost_send(chs, heap, c, messageId, ref) ==
    IF heap[ref].detached THEN [error |-> "DataCloneError", chans |-> chs, heap |-> heap]
    ELSE [ error |-> "", chans |-> Channel_send(chs, c, messageId, heap[ref].bytes),
           heap |-> [heap EXCEPT ![ref].detached = TRUE] ]

\* HostTransport.send on the buffer ref.
HostTransport_sendBuffer(t, chs, heap, userId, messageId, ref) ==
    IF MapHas(t.clients, userId)
    THEN WorkerTransportHost_send(chs, heap, MapGet(t.clients, userId), messageId, ref)
    ELSE [error |-> "", chans |-> chs, heap |-> heap]

HostTransport_send(t, chs, userId, messageId, data) ==
    HostTransport_sendBuffer(t, chs, <<ArrayBuffer_new(data)>>, userId, messageId, 1).chans

RECURSIVE BroadcastFrom_shared(_, _, _, _, _, _, _)
BroadcastFrom_shared(t, chs, heap, i, messageId, ref, sends) ==
    IF i > Len(t.clients) THEN [error |-> "", chans |-> chs, heap |-> heap, sends |-> sends]
    ELSE LET r == WorkerTransportHost_send(chs, heap, t.clients[i].val, messageId, ref)
         IN  IF r.error # ""
             THEN [error |-> r.error, chans |-> chs, heap |-> heap, sends |-> sends]
             ELSE BroadcastFrom_shared(t, r.chans, r.heap, i + 1, messageId, ref,
                      Append(sends, [chan |-> t.clients[i].val, ref |-> ref]))

\* HostTransport.broadcast, the loop: client.send(messageId, data.slice(0))
\* for every registered channel.  sends lists the send calls made.
RECURSIVE BroadcastFrom(_, _, _, _, _, _, _)
BroadcastFrom(t, chs, heap, i, messageId, ref, sends) ==
    IF i > Len(t.clients) THEN [error |-> "", chans |-> chs, heap |-> heap, sends |-> sends]
    ELSE LET copy == ArrayBuffer_slice0(heap, ref)
             r    == WorkerTransportHost_send(chs, copy.heap, t.clients[i].val, messageId,
                                              copy.ref)
         IN  IF copy.error # ""
             THEN [error |-> copy.error, chans |-> chs, heap |-> heap, sends |-> sends]
             ELSE IF r.error # ""
             THEN [error |-> r.error, chans |-> chs, heap |-> copy.heap, sends |-> sends]
             ELSE BroadcastFrom(t, r.chans, r.heap, i + 1, messageId, ref,
                      Append(sends, [chan |-> t.clients[i].val, ref |-> copy.ref]))

\* HostTransport.broadcast on the buffer ref.
HostTransport_broadcastBuffer(t, chs, heap, messageId, ref) ==
    BroadcastFrom(t, chs, heap, 1, messageId, ref, <<>>)

HostTransport_broadcast(t, chs, messageId, data) ==
    HostTransport_broadcastBuffer(t, chs, <<ArrayBuffer_new(data)>>, messageId, 1).chans

RECURSIVE DestroyFrom_keepHandlers(_, _, _, _, _)
DestroyFrom_keepHandlers(t, chs, userIds, i, calls) ==
    IF i > Len(userIds)
    THEN [ ht |-> t, chans |-> chs, calls |-> calls ]
    ELSE LET r == HostTransport_removeClient(t, chs, userIds[i])
         IN  DestroyFrom_keepHandlers(r.ht, r.chans, userIds, i + 1, calls \o r.calls)

\* HostTransport.destroy: removeClient for every user id registered at the
\* call, then the three handler sets are cleared.
RECURSIVE DestroyFrom(_, _, _, _, _)
DestroyFrom(t, chs, userIds, i, calls) ==
    IF i > Len(userIds)
    THEN [ ht |-> [t EXCEPT !.messageHandlers = <<>>, !.connectHandlers = <<>>,
                            !.disconnectHandlers = <<>>],
           chans |-> chs, calls |-> calls ]
    ELSE LET r == HostTransport_removeClient(t, chs, userIds[i])
         IN  DestroyFrom(r.ht, r.chans, userIds, i + 1, calls \o r.calls)

HostTransport_destroy(t, chs) ==
    DestroyFrom(t, chs, [ i \in 1..Len(t.clients) |-> t.clients[i].key ], 1, <<>>)

HostTransport_onMessage(t, handler) ==
    [t EXCEPT !.messageHandlers = SetAdd(@, handler)]

HostTransport_offMessage(t, handler) ==
    [t EXCEPT !.messageHandlers = SetDelete(@, handler)]

HostTransport_onConnect(t, handler) ==
    [t EXCEPT !.connectHandlers = SetAdd(@, handler)]

HostTransport_offConnect(t, handler) ==
    [t EXCEPT !.connectHandlers = SetDelete(@, handler)]

HostTransport_onDisconnect(t, handler) ==
    [t EXCEPT !.disconnectHandlers = SetAdd(@, handler)]

HostTransport_offDisconnect(t, handler) ==
    [t EXCEPT !.disconnectHandlers = SetDelete(@, handler)]

---------------------------------------------------------------------------
(* constants.ts, l_s_tick_handleConnections.ts *)

E_BodyType_Fixed == 1

E_BodyType_Dynamic == 2

\* The vertex array of a player collider, kept as one value.
PLAYER_VERTICES == 104

\* buildRawIdMap.ts: (1 << 20) - 1, the slot bits of an entity id.
ENTITY_MASK == 1048575

---------------------------------------------------------------------------
(* networkComponents.ts: the tracked components, in wire order, and their  *)
(* fields.  A component store row is a record of the five tracked fields.  *)

SOA_COMPONENTS == << <<"x", "y">>, <<"angle">>, <<"type">>, <<"vertices">> >>

Fields == Concat(SOA_COMPONENTS)

\* Typed arrays start zeroed.
ZeroRow == [x |-> 0, y |-> 0, angle |-> 0, type |-> 0, vertices |-> 0]

RowOf(store, index) == IF index \in 1..Len(store) THEN store[index] ELSE ZeroRow

\* getIndex: getId(entityIndex, eid), the slot bits of a versioned id.
getIndex(eid) == eid % (ENTITY_MASK + 1)

---------------------------------------------------------------------------
(* bitecs/serialization encoders as SerializeContext uses them.  A payload *)
(* is a sequence of numbers, one per encoded value.                        *)

OP_AddEntity == 0

OP_RemoveEntity == 1

OP_AddComponent == 2

\* createObserverSerializer: the add/remove events queued since the last call.
ObserverEncode(queue) ==
    Concat([ i \in 1..Len(queue) |->
               IF queue[i].op = OP_AddComponent
               THEN <<queue[i].eid, queue[i].op, queue[i].cid>>
               ELSE <<queue[i].eid, queue[i].op>> ])

\* createSoASerializer(SOA_COMPONENTS, {diff: true}): for every id, the fields
\* that differ from the shadow, as (id, field number, value).
SoADiffRow(id, row, shadowRow) ==
    Concat([ f \in 1..Len(Fields) |->
               IF row[Fields[f]] # shadowRow[Fields[f]]
               THEN <<id, f, row[Fields[f]]>> ELSE <<>> ])

SoADiffEncode(store, shadow, ids) ==
    Concat([ i \in 1..Len(ids) |->
               SoADiffRow(ids[i], RowOf(store, ids[i]), RowOf(shadow, ids[i])) ])

\* The shadow after the call: the values of the ids just encoded.
SoAShadowAfter(store, shadow, ids) ==
    [ i \in 1..Len(store) |->
        IF \E k \in 1..Len(ids) : ids[k] = i THEN store[i] ELSE RowOf(shadow, i) ]

\* createSnapshotSerializer: entity count, then each entity with its
\* component numbers, then every field of every entity.
SnapshotEncode(entities, store) ==
    <<entities>>
    \o Concat([ e \in 1..entities |-> <<e, Len(SOA_COMPONENTS), 0, 1, 2, 3>> ])
    \o Concat([ e \in 1..entities |->
                  Concat([ f \in 1..Len(Fields) |-> <<e, f, RowOf(store, getIndex(e))[Fields[f]]>> ]) ])

---------------------------------------------------------------------------
(* The server world (LECS).  W is the record [lecs, ht, chans, faulty,     *)
(* thrown]: the services of the world, the router, the channels, the       *)
(* channels whose send throws, and the error in flight ("" if none).       *)
(* lecs.wire is, in order, the send and broadcast calls of the running     *)
(* tick, lecs.console what the tick driver has written with console.error  *)
(* during it, lecs.ticks the number of tick calls so far.                  *)

\* createLecs: the services, the SerializeContext (frame = 0) and the three
\* observers registered on the transport.
createLecs ==
    [ frame            |-> <<0, 0>>,
      connectionQueue  |-> <<>>,
      hostMessageQueue |-> <<>>,
      players          |-> <<>>,
      entities         |-> 0,
      store            |-> <<>>,
      observerQueue    |-> <<>>,
      shadow           |-> <<>>,
      log              |-> <<>>,
      wire             |-> <<>>,
      console          |-> <<>>,
      ticks            |-> <<0, 0>> ]

\* The add events the observer serializer queues for a new networked entity.
AddEvents(eid) ==
    <<[eid |-> eid, op |-> OP_AddEntity, cid |-> 0]>>
    \o [ c \in 1..Len(SOA_COMPONENTS) |-> [eid |-> eid, op |-> OP_AddComponent, cid |-> c - 1] ]

\* createEntity, the five component writes and the five addComponent calls.
SpawnEntity(L, row) ==
    [L EXCEPT !.entities = @ + 1,
              !.store = Append(@, row),
              !.observerQueue = @ \o AddEvents(L.entities + 1)]

\* PlayerRegistry
PlayerRegistry_registerPlayer(players, userId, eid) ==
    MapSet(players, userId, [eid |-> eid, input |-> 0])

PlayerRegistry_setInput(players, userId, bitmask) ==
    IF MapHas(players, userId)
    THEN [players EXCEPT ![MapIndex(players, userId)].val.input = bitmask]
    ELSE players

PlayerRegistry_unregisterPlayer(players, userId) == MapDelete(players, userId)

\* transport.send: the send of a faulty channel throws, and HostTransport
\* passes the error on.
WireSend(W, userId, messageId, data) ==
    IF MapHas(W.ht.clients, userId) /\ MapGet(W.ht.clients, userId) \in W.faulty
    THEN [W EXCEPT !.thrown = "SendError"]
    ELSE [W EXCEPT !.chans = HostTransport_send(W.ht, W.chans, userId, messageId, data),
                   !.lecs.wire = Append(@, [to |-> userId, messageId |-> messageId,
                                            data |-> data])]

\* The position in clients of the first entry whose channel is faulty, 0 if none.
FirstFaulty(t, faulty) ==
    IF \E i \in 1..Len(t.clients) : t.clients[i].val \in faulty
    THEN CHOOSE i \in 1..Len(t.clients) :
             /\ t.clients[i].val \in faulty
             /\ \A j \in 1..(i - 1) : t.clients[j].val \notin faulty
    ELSE 0

\* transport.broadcast: the loop over clients ends at the first send that
\* throws; the clients before it have been sent the message.
WireBroadcast(W, messageId, data) ==
    LET k == FirstFaulty(W.ht, W.faulty)
        t == IF k = 0 THEN W.ht ELSE [W.ht EXCEPT !.clients = SubSeq(@, 1, k - 1)]
    IN  [W EXCEPT !.chans = HostTransport_broadcast(t, W.chans, messageId, data),
                  !.lecs.wire = Append(@, [to |-> "*", messageId |-> messageId,
                                           data |-> data]),
                  !.thrown = IF k = 0 THEN @ ELSE "SendError"]

\* l_s_tick_handleConnections, the body of the loop for one connect event.
HandleConnect_nextFrame(W, userId) ==
    LET L1  == SpawnEntity(W.lecs, [x |-> -8, y |-> 8, angle |-> 0,
                                    type |-> E_BodyType_Dynamic,
                                    vertices |-> PLAYER_VERTICES])
        L2  == [L1 EXCEPT !.players = PlayerRegistry_registerPlayer(@, userId, L1.entities)]
        buf == SnapshotEncode(L2.entities, L2.store)
    IN  WireSend([W EXCEPT !.lecs = L2], userId, MSG_SNAPSHOT,
                 packSnapshot(NumAdd(L2.frame, 1), buf))

HandleConnect(W, userId) ==
    LET L1  == SpawnEntity(W.lecs, [x |-> -8, y |-> 8, angle |-> 0,
                                    type |-> E_BodyType_Dynamic,
                                    vertices |-> PLAYER_VERTICES])
        L2  == [L1 EXCEPT !.players = PlayerRegistry_registerPlayer(@, userId, L1.entities)]
        buf == SnapshotEncode(L2.entities, L2.store)
    IN  WireSend([W EXCEPT !.lecs = L2], userId, MSG_SNAPSHOT,
                 packSnapshot(L2.frame, buf))

\* A disconnect branch that leaves the registry alone.
HandleDisconnect_keepPlayer(W, userId) == W

HandleDisconnect(W, userId) ==
    [W EXCEPT !.lecs.players = PlayerRegistry_unregisterPlayer(@, userId)]

RECURSIVE HandleEvents(_, _, _)
HandleEvents(W, events, i) ==
    IF i > Len(events) \/ W.thrown # "" THEN W
    ELSE HandleEvents(IF events[i].type = "connect"
                      THEN HandleConnect(W, events[i].userId)
                      ELSE HandleDisconnect(W, events[i].userId),
                      events, i + 1)

l_s_tick_handleConnections(W) ==
    LET d == ConnectionQueue_drain(W.lecs.connectionQueue)
    IN  HandleEvents([W EXCEPT !.lecs.connectionQueue = d.queue], d.events, 1)

\* A message loop that does not look at the message id.
RECURSIVE ReceiveFrom_anyMessage(_, _, _)
ReceiveFrom_anyMessage(players, messages, i) ==
    IF i > Len(messages) THEN players
    ELSE ReceiveFrom_anyMessage(PlayerRegistry_setInput(players, messages[i].userId,
                                                        messages[i].data[1]),
                                messages, i + 1)

\* l_s_tick_receiveMessages: the loop over the drained messages.
RECURSIVE ReceiveFrom(_, _, _)
ReceiveFrom(players, messages, i) ==
    IF i > Len(messages) THEN players
    ELSE ReceiveFrom(IF messages[i].messageId = MSG_USER_INPUT
                     THEN PlayerRegistry_setInput(players, messages[i].userId,
                                                  messages[i].data[1])
                     ELSE players,
                     messages, i + 1)

l_s_tick_receiveMessages(W) ==
    LET d == HostMessageQueue_drain(W.lecs.hostMessageQueue)
    IN  [W EXCEPT !.lecs.hostMessageQueue = d.queue,
                  !.lecs.players = ReceiveFrom(@, d.messages, 1)]

\* l_s_tick_stepPhysics: the physics step moves dynamic bodies; `move` names
\* the entity and the field it changes in this tick (eid 0: nothing moves).
l_s_tick_stepPhysics(W, move) ==
    IF /\ move.eid \in 1..W.lecs.entities
       /\ W.lecs.store[getIndex(move.eid)].type = E_BodyType_Dynamic
    THEN [W EXCEPT !.lecs.store[getIndex(move.eid)][move.field] = @ + 1]
    ELSE W

l_s_tick_serializeAndSend(W) ==
    LET L      == W.lecs
        frame  == NumAdd(L.frame, 1)
        obs    == ObserverEncode(L.observerQueue)
        rawIds == [ i \in 1..L.entities |-> getIndex(i) ]
        soa    == SoADiffEncode(L.store, L.shadow, rawIds)
        L1     == [L EXCEPT !.frame = frame,
                            !.observerQueue = <<>>,
                            !.shadow = SoAShadowAfter(L.store, L.shadow, rawIds)]
    IN  WireBroadcast([W EXCEPT !.lecs = L1], MSG_DELTA, packDelta(frame, obs, soa))

\* A tickSystems array that broadcasts the Delta before the connection phase.
tickSystems_sendBeforeConnect ==
    << "l_s_tick_serializeAndSend", "l_s_tick_handleConnections",
       "l_s_tick_receiveMessages",
       "n_s_tick_syncBodies", "n_s_tick_syncInlineColliders", "n_s_tick_syncColliders",
       "l_s_tick_applyUserInput", "l_s_tick_stepPhysics",
       "n_s_tick_cleanupBodies", "n_s_tick_cleanupColliders",
       "n_s_tick_cleanupOrphanedPhysics", "n_s_tick_cleanupOrphanedColliders" >>

\* createLecs: the tickSystems array.
tickSystems_sendBeforeStep ==
    << "l_s_tick_handleConnections", "l_s_tick_receiveMessages",
       "n_s_tick_syncBodies", "n_s_tick_syncInlineColliders", "n_s_tick_syncColliders",
       "l_s_tick_applyUserInput", "l_s_tick_serializeAndSend", "l_s_tick_stepPhysics",
       "n_s_tick_cleanupBodies", "n_s_tick_cleanupColliders",
       "n_s_tick_cleanupOrphanedPhysics", "n_s_tick_cleanupOrphanedColliders" >>

tickSystems ==
    << "l_s_tick_handleConnections", "l_s_tick_receiveMessages",
       "n_s_tick_syncBodies", "n_s_tick_syncInlineColliders", "n_s_tick_syncColliders",
       "l_s_tick_applyUserInput", "l_s_tick_stepPhysics",
       "n_s_tick_cleanupBodies", "n_s_tick_cleanupColliders",
       "n_s_tick_cleanupOrphanedPhysics", "n_s_tick_cleanupOrphanedColliders",
       "l_s_tick_serializeAndSend" >>

\* One tick system.  The sync, cleanup and input systems work on the physics
\* world only, whose effect on the tracked fields is the move of stepPhysics.
RunSystem(name, W, move) ==
    CASE name = "l_s_tick_handleConnections" -> l_s_tick_handleConnections(W)
      [] name = "l_s_tick_receiveMessages"   -> l_s_tick_receiveMessages(W)
      [] name = "l_s_tick_stepPhysics"       -> l_s_tick_stepPhysics(W, move)
      [] name = "l_s_tick_serializeAndSend"  -> l_s_tick_serializeAndSend(W)
      [] OTHER -> W

\* The catch block of tick: the error is written to the console and dropped.
Catch(W, name) ==
    IF W.thrown = "" THEN W
    ELSE [W EXCEPT !.thrown = "",
                   !.lecs.console = Append(@, [system |-> name, error |-> W.thrown])]

\* A tick loop without the try block: the first error ends the tick and
\* reaches the caller.
RECURSIVE TickFrom_noCatch(_, _, _)
TickFrom_noCatch(W, i, move) ==
    IF i > Len(tickSystems) \/ W.thrown # "" THEN W
    ELSE TickFrom_noCatch(RunSystem(tickSystems[i],
                                    [W EXCEPT !.lecs.log = Append(@, tickSystems[i])], move),
                          i + 1, move)

\* createEcsWorld.tick: every system of the array, in array order, each in
\* its own try block.
RECURSIVE TickFrom(_, _, _)
TickFrom(W, i, move) ==
    IF i > Len(tickSystems) THEN W
    ELSE TickFrom(Catch(RunSystem(tickSystems[i],
                                  [W EXCEPT !.lecs.log = Append(@, tickSystems[i])], move),
                        tickSystems[i]),
                  i + 1, move)

\* lecs.tick(dt) while the send of the channels in faulty throws.
LecsTickOn(W, move, faulty) ==
    TickFrom([ lecs   |-> [W.lecs EXCEPT !.log = <<>>, !.wire = <<>>, !.console = <<>>,
                                      !.ticks = NumAdd(@, 1)],
               ht     |-> W.ht,
               chans  |-> W.chans,
               faulty |-> faulty,
               thrown |-> "" ], 1, move)

LecsTick(W, move) == LecsTickOn(W, move, {})

\* The observers createLecs registers: connect and disconnect events go to
\* the ConnectionQueue, inbound messages to the HostMessageQueue.
RECURSIVE LecsObserve(_, _, _)
LecsObserve(L, calls, i) ==
    IF i > Len(calls) THEN L
    ELSE LecsObserve(
           CASE calls[i].kind = "connect" ->
                  [L EXCEPT !.connectionQueue = ConnectionQueue_pushConnect(@, calls[i].userId)]
             [] calls[i].kind = "disconnect" ->
                  [L EXCEPT !.connectionQueue = ConnectionQueue_pushDisconnect(@, calls[i].userId)]
             [] OTHER ->
                  [L EXCEPT !.hostMessageQueue =
                      HostMessageQueue_push(@, calls[i].userId, calls[i].messageId,
                                            calls[i].data)],
           calls, i + 1)

---------------------------------------------------------------------------
(* The client world (VECS).  A client C is its MessageQueue, its           *)
(* DeserializeContext (snapshotFrame, idMap) and its entities with their   *)
(* component store.  origin names, for every local entity, the server      *)
(* entity it was created for; read counts the channel messages received;   *)
(* log lists the messages handled by the last tick, console what the tick  *)
(* driver has written with console.error.                                  *)

\* createVecs: new MessageQueue, new DeserializeContext (snapshotFrame = -1,
\* empty idMap) on an empty world.
createVecs ==
    [ queue         |-> <<>>,
      snapshotFrame |-> MinusOne,
      idMap         |-> <<>>,
      entities      |-> 0,
      store         |-> <<>>,
      origin        |-> <<>>,
      removed       |-> {},
      read          |-> 0,
      log           |-> <<>>,
      console       |-> {} ]

\* A buildRawIdMap that strips the version bits of the keys only.
buildRawIdMap_keysOnly(observerIdMap) ==
    [ i \in 1..Len(observerIdMap) |->
        [key |-> getIndex(observerIdMap[i].key), val |-> observerIdMap[i].val] ]

\* A buildRawIdMap in which the first entry of a slot wins.
RECURSIVE buildRawIdMapFrom_firstWins(_, _, _)
buildRawIdMapFrom_firstWins(observerIdMap, i, raw) ==
    IF i > Len(observerIdMap) THEN raw
    ELSE buildRawIdMapFrom_firstWins(observerIdMap, i + 1,
             IF MapHas(raw, getIndex(observerIdMap[i].key)) THEN raw
             ELSE MapSet(raw, getIndex(observerIdMap[i].key), getIndex(observerIdMap[i].val)))

\* buildRawIdMap: the slot bits of every key and value, later entries
\* overwriting earlier ones.
RECURSIVE buildRawIdMapFrom(_, _, _)
buildRawIdMapFrom(observerIdMap, i, raw) ==
    IF i > Len(observerIdMap) THEN raw
    ELSE buildRawIdMapFrom(observerIdMap, i + 1,
             MapSet(raw, getIndex(observerIdMap[i].key), getIndex(observerIdMap[i].val)))

buildRawIdMap(observerIdMap) == buildRawIdMapFrom(observerIdMap, 1, <<>>)

\* addEntity on the client world, for the server entity eid.
AddLocal(C, eid) ==
    [C EXCEPT !.entities = @ + 1,
              !.store = Append(@, ZeroRow),
              !.origin = Append(@, eid)]

\* createObserverDeserializer(world, n_c_networked, OBSERVER_COMPONENTS,
\* {idMap}): an add of an unmapped entity creates a local entity and
\* registers it in the id map, a removal of an unknown id is a no-op, the id
\* map is never pruned.
RECURSIVE ObserverDecode(_, _, _)
ObserverDecode(C, payload, i) ==
    IF i + 1 > Len(payload) THEN C
    ELSE LET eid == payload[i]
             op  == payload[i + 1]
         IN  IF op = OP_AddEntity
             THEN ObserverDecode(
                      IF MapHas(C.idMap, eid) THEN C
                      ELSE [AddLocal(C, eid) EXCEPT !.idMap = MapSet(@, eid, C.entities + 1)],
                      payload, i + 2)
             ELSE IF op = OP_RemoveEntity
             THEN ObserverDecode(
                      IF MapHas(C.idMap, eid)
                      THEN [C EXCEPT !.removed = @ \cup {MapGet(C.idMap, eid)}]
                      ELSE C,
                      payload, i + 2)
             ELSE ObserverDecode(C, payload, i + 3)

\* createSoADeserializer(SOA_COMPONENTS, {diff: true}): every (id, field,
\* value) is written to the mapped local slot, an id absent from the map is
\* skipped.
RECURSIVE SoADecode(_, _, _, _)
SoADecode(C, payload, rawIdMap, i) ==
    IF i + 2 > Len(payload) THEN C
    ELSE SoADecode(
             IF MapHas(rawIdMap, payload[i])
             THEN [C EXCEPT !.store[MapGet(rawIdMap, payload[i])][Fields[payload[i + 1]]] =
                                payload[i + 2]]
             ELSE C,
             payload, rawIdMap, i + 3)

\* What the snapshot deserializer does with an entity the map it is handed
\* does not hold: it skips the entity, or it creates a local entity and
\* extends that map.
SnapshotPolicies == {"skip", "create"}

\* The entity part of a snapshot payload: k entities from position i on.
RECURSIVE SnapshotEntities(_, _, _, _, _, _)
SnapshotEntities(C, payload, rawIdMap, i, k, policy) ==
    IF k = 0 \/ i + 1 > Len(payload) THEN [C |-> C, rawIdMap |-> rawIdMap, next |-> i]
    ELSE LET eid   == payload[i]
             after == i + 2 + payload[i + 1]
         IN  IF MapHas(rawIdMap, eid) \/ policy = "skip"
             THEN SnapshotEntities(C, payload, rawIdMap, after, k - 1, policy)
             ELSE SnapshotEntities(AddLocal(C, eid), payload,
                                   MapSet(rawIdMap, eid, C.entities + 1),
                                   after, k - 1, policy)

\* createSnapshotDeserializer(world, SOA_COMPONENTS): every field of every
\* entity of the payload overwrites the local value.
SnapshotDecode(C, payload, rawIdMap, policy) ==
    IF payload = <<>> THEN C
    ELSE LET r == SnapshotEntities(C, payload, rawIdMap, 2, payload[1], policy)
         IN  SoADecode(r.C, payload, r.rawIdMap, r.next)

\* DeserializeContext.observerDeserialize
DeserializeContext_observerDeserialize(C, buffer) == ObserverDecode(C, buffer, 1)

\* A soaDeserialize whose decoder writes an id absent from the map to the
\* local entity of the same number.
DeserializeContext_soaDeserialize_sameId(C, buffer) ==
    SoADecode(C, buffer,
              buildRawIdMap(C.idMap)
                \o SelectSeq([ l \in 1..C.entities |-> [key |-> l, val |-> l] ],
                             LAMBDA e : ~MapHas(buildRawIdMap(C.idMap), e.key)),
              1)

\* DeserializeContext.soaDeserialize
DeserializeContext_soaDeserialize(C, buffer) ==
    SoADecode(C, buffer, buildRawIdMap(C.idMap), 1)

DeserializeContext_snapshotDeserialize_fresh(C, buffer, policy) ==
    SnapshotDecode([C EXCEPT !.idMap = <<>>], buffer, <<>>, policy)

\* DeserializeContext.snapshotDeserialize: the decoder is handed a map built
\* for this call, the idMap itself is not touched.
DeserializeContext_snapshotDeserialize(C, buffer, policy) ==
    SnapshotDecode(C, buffer, buildRawIdMap(C.idMap), policy)

\* What a message may change: the id map and the world.
Mirror(C) ==
    [idMap |-> C.idMap, entities |-> C.entities, store |-> C.store,
     origin |-> C.origin, removed |-> C.removed]

Logged(C, message, unpacked, C1) ==
    [C1 EXCEPT !.log = Append(@, [ messageId |-> message.messageId,
                                   unpacked  |-> unpacked,
                                   marker    |-> C.snapshotFrame,
                                   before    |-> Mirror(C),
                                   after     |-> Mirror(C1) ])]

ApplyDelta_discardOlder(C, unpacked) ==
    IF NumLT(unpacked.frame, C.snapshotFrame) THEN C
    ELSE DeserializeContext_soaDeserialize(
             DeserializeContext_observerDeserialize(C, unpacked.observer), unpacked.soa)

\* A MSG_DELTA branch that decodes the Field-Diff payload first.
ApplyDelta_soaFirst(C, unpacked) ==
    IF NumLE(unpacked.frame, C.snapshotFrame) THEN C
    ELSE DeserializeContext_observerDeserialize(
             DeserializeContext_soaDeserialize(C, unpacked.soa), unpacked.observer)

\* v_s_tick_applyNetworkMessages, the MSG_DELTA branch.
ApplyDelta(C, unpacked) ==
    IF NumLE(unpacked.frame, C.snapshotFrame) THEN C
    ELSE DeserializeContext_soaDeserialize(
             DeserializeContext_observerDeserialize(C, unpacked.observer), unpacked.soa)

\* v_s_tick_applyNetworkMessages, the MSG_SNAPSHOT branch.
ApplySnapshot(C, unpacked, policy) ==
    DeserializeContext_snapshotDeserialize(
        [C EXCEPT !.snapshotFrame = unpacked.frame], unpacked.snapshot, policy)

\* v_s_tick_applyNetworkMessages: the loop over the drained messages.  A
\* RangeError of unpack leaves the system, the messages after it are lost;
\* tick catches the error and hands it to console.error.
RECURSIVE ApplyFrom(_, _, _, _)
ApplyFrom(C, messages, i, policy) ==
    IF i > Len(messages) THEN C
    ELSE LET m == messages[i]
         IN  IF m.messageId = MSG_SNAPSHOT
             THEN IF unpackSnapshot(m.data) = RangeError
                  THEN [C EXCEPT !.console = @ \cup {"RangeError"}]
                  ELSE ApplyFrom(Logged(C, m, unpackSnapshot(m.data),
                                        ApplySnapshot(C, unpackSnapshot(m.data), policy)),
                                 messages, i + 1, policy)
             ELSE IF m.messageId = MSG_DELTA
             THEN IF unpackDelta(m.data) = RangeError
                  THEN [C EXCEPT !.console = @ \cup {"RangeError"}]
                  ELSE ApplyFrom(Logged(C, m, unpackDelta(m.data),
                                        ApplyDelta(C, unpackDelta(m.data))),
                                 messages, i + 1, policy)
             ELSE ApplyFrom(C, messages, i + 1, policy)

v_s_tick_applyNetworkMessages(C, policy) ==
    ApplyFrom([C EXCEPT !.queue = MessageQueue_drain(C.queue).queue, !.log = <<>>],
              MessageQueue_drain(C.queue).result, 1, policy)

---------------------------------------------------------------------------
(* Specification SpecFrame: the frame framer applied to bounded inputs *)

MaxPayloadLen == 2

ByteSamples == {0, 1, 255}

\* Frame values that fit the 32-bit field: 0, 7, 255, 256, 65535, 65536, 2^32 - 1.
FrameSamples ==
    { <<0, 0>>, <<0, 7>>, <<0, 255>>, <<0, 256>>, <<0, Limb - 1>>, <<1, 0>>,
      <<Limb - 1, Limb - 1>> }

Payloads == UNION { [1..n -> ByteSamples] : n \in 0..MaxPayloadLen }

FrameInit ==
    /\ fIn \in [kind : {"delta"}, frame : FrameSamples, observer : Payloads, soa : Payloads]
               \cup [kind : {"snapshot"}, frame : FrameSamples, snapshot : Payloads]
    /\ fBuf = <<>>
    /\ fOut = <<>>
    /\ fPc = "in"

DoPackDelta ==
    /\ fPc = "in" /\ fIn.kind = "delta"
    /\ fBuf' = packDelta(fIn.frame, fIn.observer, fIn.soa)
    /\ fPc' = "packed"
    /\ UNCHANGED <<fIn, fOut, queueVars, hostVars, serverVars, vecs, routerVars>>

DoUnpackDelta ==
    /\ fPc = "packed" /\ fIn.kind = "delta"
    /\ fOut' = unpackDelta(fBuf)
    /\ fPc' = "unpacked"
    /\ UNCHANGED <<fIn, fBuf, queueVars, hostVars, serverVars, vecs, routerVars>>

DoPackSnapshot ==
    /\ fPc = "in" /\ fIn.kind = "snapshot"
    /\ fBuf' = packSnapshot(fIn.frame, fIn.snapshot)
    /\ fPc' = "packed"
    /\ UNCHANGED <<fIn, fOut, queueVars, hostVars, serverVars, vecs, routerVars>>

DoUnpackSnapshot ==
    /\ fPc = "packed" /\ fIn.kind = "snapshot"
    /\ fOut' = unpackSnapshot(fBuf)
    /\ fPc' = "unpacked"
    /\ UNCHANGED <<fIn, fBuf, queueVars, hostVars, serverVars, vecs, routerVars>>

FrameNext == DoPackDelta \/ DoUnpackDelta \/ DoPackSnapshot \/ DoUnpackSnapshot

InitFrame == FrameInit /\ QueueIdle /\ HostIdle /\ ServerIdle /\ ClientIdle /\ RouterIdle

SpecFrame == InitFrame /\ [][FrameNext]_vars

\* C6: unpackDelta(packDelta(frame, observer, soa)) returns exactly frame,
\* observer and soa, and unpackSnapshot(packSnapshot(frame, snapshot)) returns
\* exactly frame and snapshot, for every frame that fits the 32-bit field and
\* all byte sequences, the empty ones included.
C6_RoundTrip ==
    fPc = "unpacked" =>
        IF fIn.kind = "delta"
        THEN fOut = [frame |-> fIn.frame, observer |-> fIn.observer, soa |-> fIn.soa]
        ELSE fOut = [frame |-> fIn.frame, snapshot |-> fIn.snapshot]

\* A Delta with an empty observer payload, a non-empty SoA payload and the
\* largest frame has been packed and unpacked.
C6_Witness ==
    /\ fPc = "unpacked" /\ fIn.kind = "delta"
    /\ fIn.frame = <<Limb - 1, Limb - 1>>
    /\ fIn.observer = <<>> /\ Len(fIn.soa) = MaxPayloadLen
    /\ fOut.soa = fIn.soa

---------------------------------------------------------------------------
(* Specification SpecWire: unpackDelta and unpackSnapshot applied to any   *)
(* buffer a channel can deliver, well formed or not.                       *)

MaxBufferLen == 9

WireBuffers == UNION { [1..n -> ByteSamples] : n \in 0..MaxBufferLen }

WireInit ==
    /\ fIn \in [kind : {"delta", "snapshot"}]
    /\ fBuf \in WireBuffers
    /\ fOut = <<>>
    /\ fPc = "packed"

WireNext == DoUnpackDelta \/ DoUnpackSnapshot

InitWire == WireInit /\ QueueIdle /\ HostIdle /\ ServerIdle /\ ClientIdle /\ RouterIdle

SpecWire == InitWire /\ [][WireNext]_vars

\* A buffer no packDelta / packSnapshot call can have produced: shorter than
\* the header, or a Delta whose observerLen exceeds the bytes after the header.
Malformed(kind, buffer) ==
    IF kind = "snapshot" THEN Len(buffer) < 4
    ELSE \/ Len(buffer) < 8
         \/ NumLT(NumOf(Len(buffer) - 8), GetUint32(buffer, 4))

\* C14: unpacking a malformed Delta or Snapshot signals an error: a buffer
\* shorter than its header, or a Delta whose observerLen exceeds the bytes
\* that remain, never yields a payload.
C14_MalformedSignalsError ==
    (fPc = "unpacked" /\ Malformed(fIn.kind, fBuf)) => fOut = RangeError

---------------------------------------------------------------------------
(* Specification SpecQueue: one queue object under arbitrary interleavings *)
(* of its push and drain calls.                                            *)

MaxPushes == 3

MaxDrains == 3

QueueUsers == {"u1", "u2"}

QueueData == {<<0>>, <<1>>}

RECURSIVE Flatten(_)
Flatten(batches) ==
    IF batches = <<>> THEN <<>> ELSE Head(batches) \o Flatten(Tail(batches))

QueueInit ==
    /\ qWhich \in {"ConnectionQueue", "HostMessageQueue", "MessageQueue"}
    /\ qConn = <<>> /\ qHost = <<>> /\ qMsg = <<>>
    /\ qPushed = <<>> /\ qBatches = <<>> /\ qDrained = FALSE

Pushed(queue, queue2) ==
    /\ Len(qPushed) < MaxPushes
    /\ qPushed' = Append(qPushed, queue2[Len(queue2)])
    /\ qDrained' = FALSE
    /\ UNCHANGED <<qWhich, qBatches, frameVars, hostVars, serverVars, vecs, routerVars>>

Drained(batch) ==
    /\ Len(qBatches) < MaxDrains
    /\ qBatches' = Append(qBatches, batch)
    /\ qDrained' = TRUE
    /\ UNCHANGED <<qWhich, qPushed, frameVars, hostVars, serverVars, vecs, routerVars>>

QPushConnect ==
    /\ qWhich = "ConnectionQueue"
    /\ \E u \in QueueUsers : qConn' = ConnectionQueue_pushConnect(qConn, u)
    /\ Pushed(qConn, qConn')
    /\ UNCHANGED <<qHost, qMsg>>

QPushDisconnect ==
    /\ qWhich = "ConnectionQueue"
    /\ \E u \in QueueUsers : qConn' = ConnectionQueue_pushDisconnect(qConn, u)
    /\ Pushed(qConn, qConn')
    /\ UNCHANGED <<qHost, qMsg>>

QConnDrain ==
    /\ qWhich = "ConnectionQueue"
    /\ qConn' = ConnectionQueue_drain(qConn).queue
    /\ Drained(ConnectionQueue_drain(qConn).events)
    /\ UNCHANGED <<qHost, qMsg>>

QHostPush ==
    /\ qWhich = "HostMessageQueue"
    /\ \E u \in QueueUsers, d \in QueueData :
          qHost' = HostMessageQueue_push(qHost, u, MSG_USER_INPUT, d)
    /\ Pushed(qHost, qHost')
    /\ UNCHANGED <<qConn, qMsg>>

QHostDrain ==
    /\ qWhich = "HostMessageQueue"
    /\ qHost' = HostMessageQueue_drain(qHost).queue
    /\ Drained(HostMessageQueue_drain(qHost).messages)
    /\ UNCHANGED <<qConn, qMsg>>

QMsgPush ==
    /\ qWhich = "MessageQueue"
    /\ \E m \in {MSG_DELTA, MSG_SNAPSHOT}, d \in QueueData :
          qMsg' = MessageQueue_push(qMsg, m, d)
    /\ Pushed(qMsg, qMsg')
    /\ UNCHANGED <<qConn, qHost>>

QMsgDrain ==
    /\ qWhich = "MessageQueue"
    /\ qMsg' = MessageQueue_drain(qMsg).queue
    /\ Drained(MessageQueue_drain(qMsg).result)
    /\ UNCHANGED <<qConn, qHost>>

QueueNext ==
    \/ QPushConnect \/ QPushDisconnect \/ QConnDrain
    \/ QHostPush \/ QHostDrain
    \/ QMsgPush \/ QMsgDrain

InitQueue == QueueInit /\ FrameIdle /\ HostIdle /\ ServerIdle /\ ClientIdle /\ RouterIdle

SpecQueue == InitQueue /\ [][QueueNext]_vars

QueueUnderTest ==
    IF qWhich = "ConnectionQueue" THEN qConn
    ELSE IF qWhich = "HostMessageQueue" THEN qHost ELSE qMsg

\* C9: for each of the three queues, under any interleaving of pushes and
\* drains, the arrays the drains returned, one after the other, followed by
\* what is still queued, are exactly the events pushed, in push order (so
\* every event is returned by exactly one drain, in push order, and an event
\* pushed after a drain is in a later one), and the queue is empty right
\* after a drain.
C9_FifoDrain ==
    /\ Flatten(qBatches) \o QueueUnderTest = qPushed
    /\ qDrained => QueueUnderTest = <<>>

\* Two events were pushed and drained, a third was pushed after that drain
\* and came back from the second drain alone.
C9_Witness ==
    /\ qWhich = "ConnectionQueue"
    /\ Len(qBatches) = 2
    /\ Len(qBatches[1]) = 2
    /\ qBatches[2] = <<[userId |-> "u1", type |-> "disconnect"]>>
    /\ qDrained

---------------------------------------------------------------------------
(* Specification SpecHost: the HostTransport router with observers that    *)
(* subscribe and unsubscribe, clients that are added and removed, and      *)
(* channels that deliver inbound messages.                                 *)

MaxChannels == 3

Users == {"u1", "u2"}

Handlers == {"h1", "h2"}

InboundSamples == { [messageId |-> MSG_USER_INPUT, data |-> <<1>>] }

HostInit ==
    /\ ht = HostTransport_new
    /\ chans = <<>>
    /\ hFired = {}
    /\ hLast = [chan |-> 0]

MessageCalls(calls) == SelectSeq(calls, LAMBDA x : x.kind = "message")

\* transport.addClient(userId, connection) with a channel not used before.
HAddClient ==
    /\ Len(chans) < MaxChannels
    /\ \E u \in Users, during \in {<<>>} \cup { <<m>> : m \in InboundSamples } :
         LET c == Len(chans) + 1
             r == HostTransport_addClient(ht, Append(chans, Channel_new), u, c, during)
         IN  /\ during # <<>> => ht.connectHandlers # <<>>
             /\ ht' = r.ht
             /\ chans' = r.chans
             /\ hFired' = { p \in hFired : p[1] # u } \cup {<<u, c>>}
             /\ hLast' = IF during = <<>> THEN hLast
                         ELSE [ chan |-> c, users |-> {u}, message |-> during[1],
                                handlers |-> ht.messageHandlers,
                                calls |-> MessageCalls(r.calls) ]
    /\ UNCHANGED <<frameVars, queueVars, serverVars, vecs, routerVars>>

\* transport.removeClient(userId)
HRemoveClient ==
    /\ \E u \in Users :
         LET r == HostTransport_removeClient(ht, chans, u)
         IN  /\ ht' = r.ht
             /\ chans' = r.chans
             /\ hFired' = { p \in hFired : p[1] # u }
    /\ UNCHANGED <<hLast, frameVars, queueVars, serverVars, vecs, routerVars>>

\* A channel delivers an inbound message.
HDeliver ==
    /\ \E c \in 1..Len(chans), m \in InboundSamples :
         /\ ~chans[c].destroyed
         /\ hLast' = [ chan |-> c, users |-> { u \in Users : <<u, c>> \in hFired },
                       message |-> m, handlers |-> ht.messageHandlers,
                       calls |-> Channel_deliver(ht, chans, c, m.messageId, m.data) ]
    /\ UNCHANGED <<ht, chans, hFired, frameVars, queueVars, serverVars, vecs, routerVars>>

HOnMessage ==
    /\ \E h \in Handlers : ht' = HostTransport_onMessage(ht, h)
    /\ UNCHANGED <<chans, hFired, hLast, frameVars, queueVars, serverVars, vecs, routerVars>>

HOffMessage ==
    /\ \E h \in Handlers : ht' = HostTransport_offMessage(ht, h)
    /\ UNCHANGED <<chans, hFired, hLast, frameVars, queueVars, serverVars, vecs, routerVars>>

HOnConnect ==
    /\ \E h \in Handlers : ht' = HostTransport_onConnect(ht, h)
    /\ UNCHANGED <<chans, hFired, hLast, frameVars, queueVars, serverVars, vecs, routerVars>>

HostNext ==
    \/ HAddClient \/ HRemoveClient \/ HDeliver
    \/ HOnMessage \/ HOffMessage \/ HOnConnect

InitHost == HostInit /\ FrameIdle /\ QueueIdle /\ ServerIdle /\ ClientIdle /\ RouterIdle

SpecHost == InitHost /\ [][HostNext]_vars

\* C10: addClient registers the channel and subscribes to it before it fires
\* the connect observers: a message the channel delivers once the connect
\* observers of userId have been fired (from within a connect observer, or
\* at any later time while that channel is the one registered for userId)
\* is re-emitted to every message observer, tagged with userId.
C10_SubscribedBeforeConnect ==
    hLast.chan # 0 =>
        \A u \in hLast.users : \A i \in 1..Len(hLast.handlers) :
            \E j \in 1..Len(hLast.calls) :
                hLast.calls[j] = [ kind |-> "message", handler |-> hLast.handlers[i],
                                   userId |-> u, messageId |-> hLast.message.messageId,
                                   data |-> hLast.message.data ]

\* A channel delivered a message from within a connect observer of u1 while
\* two message observers were registered, and both were called.
C10_Witness ==
    /\ hLast.chan # 0
    /\ hLast.users = {"u1"}
    /\ Len(hLast.handlers) = 2
    /\ Len(hLast.calls) = 2
    /\ ht.connectHandlers # <<>>

---------------------------------------------------------------------------
(* Specification SpecServer: the server world of the worker bootstrap      *)
(* (createLecs, spawnRoom), clients that are added and removed between     *)
(* ticks, inbound input messages, and ticks.  SpecLong is the same server  *)
(* seen after 2^32 - 2 ticks without a client.                             *)

MaxTicks == 2

MaxClients == 2

MaxInbound == 1

\* ROOM_SHAPES.length: spawnRoom creates one fixed entity per room shape; a
\* shape is kept as its index.
ROOM_SHAPES_length == 6

RECURSIVE spawnRoom(_, _)
spawnRoom(L, i) ==
    IF i > ROOM_SHAPES_length THEN L
    ELSE spawnRoom(SpawnEntity(L, [x |-> 0, y |-> 0, angle |-> 0,
                                   type |-> E_BodyType_Fixed, vertices |-> i]),
                   i + 1)

LecsTransport ==
    HostTransport_onMessage(
        HostTransport_onDisconnect(HostTransport_onConnect(HostTransport_new, "lecs"), "lecs"),
        "lecs")

ServerInit ==
    /\ lecs = spawnRoom(createLecs, 1)
    /\ ht = LecsTransport
    /\ chans = <<>>
    /\ hFired = {}
    /\ hLast = [chan |-> 0]
    /\ gTicks = 0
    /\ gDeltas = <<>>
    /\ gSnaps = {}
    /\ gConnects = <<>>
    /\ gEntities = <<>>
    /\ vecs = <<>>

\* The same server after 2^32 - 2 ticks: the room entities were serialized
\* long ago, the last Delta carried frame 2^32 - 2.
ServerInitLong ==
    /\ lecs = [spawnRoom(createLecs, 1) EXCEPT
                 !.frame = <<Limb - 1, Limb - 2>>,
                 !.ticks = <<Limb - 1, Limb - 2>>,
                 !.observerQueue = <<>>,
                 !.shadow = spawnRoom(createLecs, 1).store]
    /\ ht = LecsTransport
    /\ chans = <<>>
    /\ hFired = {}
    /\ hLast = [chan |-> 0]
    /\ gTicks = 0
    /\ gDeltas = << <<Limb - 1, Limb - 2>> >>
    /\ gSnaps = {}
    /\ gConnects = <<>>
    /\ gEntities = <<ROOM_SHAPES_length>>
    /\ vecs = <<>>

\* What a physics step may change: nothing, or x of one body (the first room
\* body stands for the fixed ones, which the step never writes).
Moves(L) ==
    [eid : {0, 1} \cup (ROOM_SHAPES_length + 1)..(L.entities + Len(L.connectionQueue)),
     field : {"x"}]

LastDelta == IF gDeltas = <<>> THEN <<0, 0>> ELSE gDeltas[Len(gDeltas)]

\* transport.addClient(userId, channel) with a new channel.
SAddClient ==
    /\ Len(chans) < MaxClients
    /\ \E u \in Users :
         LET c == Len(chans) + 1
             r == HostTransport_addClient(ht, Append(chans, Channel_new), u, c, <<>>)
         IN  /\ ht' = r.ht
             /\ chans' = r.chans
             /\ lecs' = LecsObserve(lecs, r.calls, 1)
             /\ vecs' = Append(vecs, createVecs)
    /\ UNCHANGED <<hFired, hLast, gTicks, gDeltas, gSnaps, gConnects, gEntities,
                   frameVars, queueVars, routerVars>>

\* transport.removeClient(userId) of a registered client.
SRemoveClient ==
    /\ \E u \in Users :
         LET r == HostTransport_removeClient(ht, chans, u)
         IN  /\ MapHas(ht.clients, u)
             /\ ht' = r.ht
             /\ chans' = r.chans
             /\ lecs' = LecsObserve(lecs, r.calls, 1)
    /\ UNCHANGED <<hFired, hLast, gTicks, gDeltas, gSnaps, gConnects, gEntities,
                   frameVars, queueVars, vecs, routerVars>>

\* A channel delivers the input message of its client.
SInbound ==
    /\ Len(lecs.hostMessageQueue) < MaxInbound
    /\ \E c \in 1..Len(chans), m \in InboundSamples :
         /\ ~chans[c].destroyed
         /\ lecs' = LecsObserve(lecs, Channel_deliver(ht, chans, c, m.messageId, m.data), 1)
    /\ UNCHANGED <<ht, chans, hFired, hLast, gTicks, gDeltas, gSnaps, gConnects, gEntities,
                   frameVars, queueVars, vecs, routerVars>>

ChannelOf(t, userId) == IF MapHas(t.clients, userId) THEN MapGet(t.clients, userId) ELSE 0

\* lecs.tick(dt) while the send of the channels in faulty throws.
TickWith(move, faulty) ==
    /\ gTicks < MaxTicks
    /\   LET W    == LecsTickOn([lecs |-> lecs, ht |-> ht, chans |-> chans], move, faulty)
             wire == W.lecs.wire
             cq   == lecs.connectionQueue
         IN  /\ lecs' = W.lecs
             /\ ht' = W.ht
             /\ chans' = W.chans
             /\ gTicks' = gTicks + 1
             /\ gDeltas' = gDeltas \o
                  [ i \in 1..Len(SelectSeq(wire, LAMBDA w : w.messageId = MSG_DELTA)) |->
                      unpackDelta(SelectSeq(wire, LAMBDA w : w.messageId = MSG_DELTA)[i].data).frame ]
             /\ gSnaps' = { [ to    |-> wire[i].to,
                              frame |-> unpackSnapshot(wire[i].data).frame,
                              last  |-> LastDelta ] :
                            i \in { j \in 1..Len(wire) : wire[j].messageId = MSG_SNAPSHOT } }
             /\ gConnects' = gConnects \o
                  [ i \in 1..Len(SelectSeq(cq, LAMBDA e : e.type = "connect")) |->
                      [ userId |-> SelectSeq(cq, LAMBDA e : e.type = "connect")[i].userId,
                        chan   |-> ChannelOf(ht, SelectSeq(cq, LAMBDA e : e.type = "connect")[i].userId) ] ]
             /\ gEntities' = Append(gEntities, W.lecs.entities)
    /\ UNCHANGED <<hFired, hLast, frameVars, queueVars, vecs>>

\* lecs.tick(dt) on channels that work.
STick ==
    /\ \E move \in Moves(lecs) : TickWith(move, {})
    /\ UNCHANGED routerVars

ServerNext == SAddClient \/ SRemoveClient \/ SInbound \/ STick

InitServer == ServerInit /\ FrameIdle /\ QueueIdle /\ RouterIdle

SpecServer == InitServer /\ [][ServerNext]_vars

\* A physics step that moves no body.
AtRest == [eid |-> 0, field |-> "x"]

\* lecs.tick(dt) while every body rests.
RestTick ==
    /\ TickWith(AtRest, {})
    /\ UNCHANGED routerVars

JoinNext == SAddClient \/ SRemoveClient \/ RestTick

\* The server with clients that come and go and send nothing.
SpecJoin == InitServer /\ [][JoinNext]_vars

InitLong == ServerInitLong /\ FrameIdle /\ QueueIdle /\ RouterIdle

SpecLong == InitLong /\ [][ServerNext]_vars

\* C1: of any two Delta messages the session broadcast, the later carries,
\* as read back by unpackDelta from its 32-bit frame field, a strictly
\* greater frame than the earlier.
C1_FramesIncrease ==
    \A i, j \in 1..Len(gDeltas) : i < j => NumLT(gDeltas[i], gDeltas[j])

\* C3: a Snapshot carries the frame of the last completed tick, that of the
\* Delta broadcast last before the connect event was drained, 0 if none.
C3_SnapshotFrame == \A sn \in gSnaps : sn.frame = sn.last

\* A client that connected after the first tick was sent a Snapshot of frame 1.
C3_Witness == \E sn \in gSnaps : sn.frame = <<0, 1>> /\ sn.to = "u1"

SnapshotsOn(c) == SelectSeq(chans[c].out, LAMBDA m : m.messageId = MSG_SNAPSHOT)

\* C7: every client that connects is sent exactly one Snapshot over its
\* connection: a channel never carries two, it carries one once its connect
\* event was drained, and every Snapshot on it precedes the Delta of its own
\* tick (the Deltas before it carry frames up to its own, those after it
\* greater frames).
C7_OneSnapshot ==
    \A c \in 1..Len(chans) :
        /\ Len(SnapshotsOn(c)) <= 1
        /\ (\E i \in 1..Len(gConnects) : gConnects[i].chan = c) => Len(SnapshotsOn(c)) = 1
        /\ \A i \in 1..Len(chans[c].out) :
              chans[c].out[i].messageId = MSG_SNAPSHOT =>
                  \A j \in 1..Len(chans[c].out) :
                      chans[c].out[j].messageId = MSG_DELTA =>
                          (i < j <=> NumLT(unpackSnapshot(chans[c].out[i].data).frame,
                                           unpackDelta(chans[c].out[j].data).frame))

\* C24: the first message the server sends on a client channel is a
\* Snapshot: however addClient, removeClient and ticks interleave, no channel
\* carries a Delta ahead of its Snapshot.
C24_SnapshotFirst ==
    \A c \in 1..Len(chans) :
        chans[c].out # <<>> => chans[c].out[1].messageId = MSG_SNAPSHOT

\* A client that joined after a Delta had been broadcast to another client
\* was sent its Snapshot and then a Delta.
C24_Witness ==
    \E c \in 2..Len(chans) :
        /\ Len(chans[c].out) >= 2
        /\ chans[c].out[1].messageId = MSG_SNAPSHOT
        /\ chans[c].out[2].messageId = MSG_DELTA
        /\ Len(chans[1].out) > Len(chans[c].out)

\* C29: at the end of the connection phase of a tick the user ids of the
\* player registry are the client ids the router held when the connection
\* queue was drained, whatever addClient and removeClient calls came between
\* the ticks.  The queue is empty from its drain to the next call, and a
\* tick changes the router's clients in no system.
C29_RegistryMatchesClients ==
    lecs.connectionQueue = <<>> => MapKeys(lecs.players) = MapKeys(ht.clients)

\* A tick drained the connect event of a user who had been removed again
\* before it, next to another user who stays registered.
C29_Witness ==
    /\ lecs.connectionQueue = <<>>
    /\ \E i \in 1..Len(gConnects) : gConnects[i].chan = 0
    /\ MapKeys(lecs.players) # {}

CorePhases ==
    {"l_s_tick_handleConnections", "l_s_tick_receiveMessages", "l_s_tick_stepPhysics",
     "l_s_tick_serializeAndSend"}

\* C8: in every tick the connection phase, the message phase, the
\* simulation step and the serialize-and-broadcast phase run once each, in
\* this order: both queues are empty after the tick, the tick hands exactly
\* one Delta to broadcast, after every Snapshot, and that Delta was
\* serialized after the step, so the shadow equals the component store.
C8_PhaseOrder ==
    gTicks > 0 =>
        /\ SelectSeq(lecs.log, LAMBDA n : n \in CorePhases) =
             << "l_s_tick_handleConnections", "l_s_tick_receiveMessages",
                "l_s_tick_stepPhysics", "l_s_tick_serializeAndSend" >>
        /\ Len(gDeltas) = gTicks
        /\ lecs.wire # <<>>
        /\ lecs.wire[Len(lecs.wire)].messageId = MSG_DELTA
        /\ \A i \in 1..(Len(lecs.wire) - 1) : lecs.wire[i].messageId = MSG_SNAPSHOT
        /\ lecs.shadow = lecs.store

\* A tick drained a connect event and an input message, moved the new
\* player and sent a Snapshot and then the Delta.
C8_Witness ==
    /\ gTicks > 0
    /\ Len(lecs.wire) = 2
    /\ lecs.wire[1].messageId = MSG_SNAPSHOT
    /\ lecs.entities > ROOM_SHAPES_length
    /\ lecs.store[lecs.entities].x # -8
    /\ \E i \in 1..Len(lecs.players) : lecs.players[i].val.input = 1

---------------------------------------------------------------------------
(* Specification SpecClient: one client world whose transport delivers     *)
(* Snapshot and Delta messages in any order.  The payloads are those the   *)
(* server's serializers produce for one or two entities.                   *)

MaxMessages == 3

ClientFrames == {NumOf(0), NumOf(1), NumOf(2), NumOf(3)}

SnapshotFrames == {NumOf(2)}

SampleRow(v) == [x |-> v, y |-> 8, angle |-> 0, type |-> E_BodyType_Dynamic,
                 vertices |-> PLAYER_VERTICES]

\* (observer, soa) payloads: entity 1 added with its first values, a later
\* change of x, the same for entity 2, and a change of x of both.
DeltaSamples ==
    { [observer |-> ObserverEncode(AddEvents(1)),
       soa      |-> SoADiffEncode(<<SampleRow(-8)>>, <<>>, <<1>>)],
      [observer |-> <<>>,
       soa      |-> SoADiffEncode(<<SampleRow(-7)>>, <<SampleRow(-8)>>, <<1>>)],
      [observer |-> ObserverEncode(AddEvents(2)),
       soa      |-> SoADiffEncode(<<SampleRow(-7), SampleRow(-8)>>, <<SampleRow(-7)>>, <<1, 2>>)],
      [observer |-> <<>>,
       soa      |-> SoADiffEncode(<<SampleRow(-5), SampleRow(-4)>>,
                                  <<SampleRow(-7), SampleRow(-8)>>, <<1, 2>>)] }

SnapshotSamples == { SnapshotEncode(1, <<SampleRow(-6)>>) }

ClientInit == vecs = <<createVecs>>

\* createVecs: transport.onMessage((messageId, data) => messageQueue.push(...)),
\* here for a Snapshot message.
CPushSnapshot ==
    /\ vecs[1].read < MaxMessages
    /\ \E frame \in SnapshotFrames, snapshot \in SnapshotSamples :
         vecs' = [vecs EXCEPT ![1].queue = MessageQueue_push(@, MSG_SNAPSHOT,
                                                             packSnapshot(frame, snapshot)),
                              ![1].read = @ + 1]
    /\ UNCHANGED <<frameVars, queueVars, hostVars, serverVars, routerVars>>

\* The same for a Delta message.
CPushDelta ==
    /\ vecs[1].read < MaxMessages
    /\ \E frame \in ClientFrames, d \in DeltaSamples :
         vecs' = [vecs EXCEPT ![1].queue = MessageQueue_push(@, MSG_DELTA,
                                                             packDelta(frame, d.observer, d.soa)),
                              ![1].read = @ + 1]
    /\ UNCHANGED <<frameVars, queueVars, hostVars, serverVars, routerVars>>

\* A tick of a client world: v_s_tick_applyNetworkMessages.
CTick ==
    /\ \E c \in 1..Len(vecs), policy \in SnapshotPolicies :
         /\ vecs[c].queue # <<>>
         /\ vecs' = [vecs EXCEPT ![c] = v_s_tick_applyNetworkMessages(@, policy)]
    /\ UNCHANGED <<frameVars, queueVars, hostVars, serverVars, routerVars>>

ClientNext == CPushSnapshot \/ CPushDelta \/ CTick

InitClient == ClientInit /\ FrameIdle /\ QueueIdle /\ HostIdle /\ ServerIdle /\ RouterIdle

SpecClient == InitClient /\ [][ClientNext]_vars

DeltaEffect(before, unpacked) ==
    Mirror(DeserializeContext_soaDeserialize(
               DeserializeContext_observerDeserialize(before, unpacked.observer),
               unpacked.soa))

\* C2: a Delta is applied (observer decoding, then field-diff decoding) if
\* and only if its frame is greater than the marker, which is the frame of
\* the Snapshot applied last, -1 before the first; a discarded Delta changes
\* neither the world nor the id map.
C2_DeltaAppliedIffNewer ==
    \A c \in 1..Len(vecs) :
        \A i \in 1..Len(vecs[c].log) :
            LET e == vecs[c].log[i]
            IN  /\ e.messageId = MSG_DELTA =>
                     IF NumLT(e.marker, e.unpacked.frame)
                     THEN e.after = DeltaEffect(e.before, e.unpacked)
                     ELSE e.after = e.before
                /\ i > 1 =>
                     e.marker = IF vecs[c].log[i - 1].messageId = MSG_SNAPSHOT
                                THEN vecs[c].log[i - 1].unpacked.frame
                                ELSE vecs[c].log[i - 1].marker
                /\ (\A j \in 1..(i - 1) : vecs[c].log[j].messageId # MSG_SNAPSHOT)
                       /\ vecs[c].log[1].marker = MinusOne
                     => e.marker = MinusOne

\* One tick handled a Snapshot of frame F, then a Delta of frame F with an
\* entity in it, which changed nothing, then a Delta of frame F + 1, which
\* created the entity.
C2_Witness ==
    \E c \in 1..Len(vecs) :
        /\ Len(vecs[c].log) = 3
        /\ vecs[c].log[1].messageId = MSG_SNAPSHOT
        /\ vecs[c].log[2].messageId = MSG_DELTA
        /\ vecs[c].log[2].unpacked.frame = vecs[c].log[1].unpacked.frame
        /\ vecs[c].log[2].unpacked.observer # <<>>
        /\ vecs[c].log[2].after = vecs[c].log[2].before
        /\ vecs[c].log[3].messageId = MSG_DELTA
        /\ vecs[c].log[3].unpacked.frame = NumAdd(vecs[c].log[1].unpacked.frame, 1)
        /\ vecs[c].log[3].after.idMap # vecs[c].log[3].before.idMap

\* C5: an entry of the id map is neither changed nor removed by any later
\* Delta or Snapshot: every message leaves every entry it finds as it was.
C5_IdMapStable ==
    \A c \in 1..Len(vecs) :
        \A i \in 1..Len(vecs[c].log) :
            LET e == vecs[c].log[i]
            IN  /\ \A k \in MapKeys(e.before.idMap) :
                       /\ MapHas(e.after.idMap, k)
                       /\ MapGet(e.after.idMap, k) = MapGet(e.before.idMap, k)
                /\ i > 1 => e.before = vecs[c].log[i - 1].after
                /\ i = Len(vecs[c].log) => e.after = Mirror(vecs[c])

\* A Delta registered an entity, then a Snapshot was applied, then a Delta
\* that adds the same entity again.
C5_Witness ==
    \E c \in 1..Len(vecs) :
        /\ Len(vecs[c].log) = 3
        /\ vecs[c].log[1].messageId = MSG_DELTA
        /\ vecs[c].log[1].after.idMap # <<>>
        /\ vecs[c].log[2].messageId = MSG_SNAPSHOT
        /\ vecs[c].log[3].messageId = MSG_DELTA
        /\ vecs[c].log[3].unpacked.observer = vecs[c].log[1].unpacked.observer
        /\ NumLT(vecs[c].log[3].marker, vecs[c].log[3].unpacked.frame)

\* The positions of a Field-Diff payload at which an (id, field, value) starts.
Triples(payload) == { t \in 1..Len(payload) : t % 3 = 1 /\ t + 2 <= Len(payload) }

\* The positions whose id is mapped to the local entity l and that name field f.
WritesTo(payload, rawIdMap, l, f) ==
    { t \in Triples(payload) :
        /\ MapHas(rawIdMap, payload[t])
        /\ MapGet(rawIdMap, payload[t]) = l
        /\ Fields[payload[t + 1]] = f }

NewIds(e) == MapKeys(e.after.idMap) \ MapKeys(e.before.idMap)

\* C21: an applied Delta decodes its Observer payload before its Field-Diff
\* payload and builds the raw id map from the id map the Observer decode
\* left: every value the Delta carries for an entity it adds is written to
\* the local entity created for that add, none is skipped.
C21_AddThenFields ==
    \A c \in 1..Len(vecs) :
        \A i \in 1..Len(vecs[c].log) :
            LET e == vecs[c].log[i]
                p == e.unpacked.soa
            IN  (e.messageId = MSG_DELTA /\ NumLT(e.marker, e.unpacked.frame)) =>
                    \A t \in Triples(p) :
                        p[t] \in NewIds(e) =>
                            LET l    == MapGet(e.after.idMap, p[t])
                                f    == Fields[p[t + 1]]
                                last == CHOOSE u \in Triples(p) :
                                            /\ p[u] = p[t] /\ p[u + 1] = p[t + 1]
                                            /\ \A v \in Triples(p) :
                                                   (p[v] = p[t] /\ p[v + 1] = p[t + 1]) => v <= u
                            IN  /\ l \in (e.before.entities + 1)..e.after.entities
                                /\ e.after.origin[l] = p[t]
                                /\ e.after.store[l][f] = p[last + 2]

\* A Delta that adds an entity and carries its first values was applied to a
\* client that already mirrors another entity.
C21_Witness ==
    \E c \in 1..Len(vecs) :
        \E i \in 1..Len(vecs[c].log) :
            LET e == vecs[c].log[i]
                p == e.unpacked.soa
            IN  /\ e.messageId = MSG_DELTA /\ NumLT(e.marker, e.unpacked.frame)
                /\ e.before.entities > 0
                /\ \E t \in Triples(p) :
                       /\ p[t] \in NewIds(e)
                       /\ e.after.store[MapGet(e.after.idMap, p[t])].x = -8

---------------------------------------------------------------------------
(* Specification SpecInput: the message phase of the server tick on any    *)
(* player registry and any batch of inbound messages.  rLast keeps the     *)
(* registry before and after the phase and the batch it drained.           *)

MaxBatch == 3

\* Inbound messages: the one-byte input a client sends, a longer payload,
\* and a message with another id.
InputMessages ==
    [userId : Users, messageId : {MSG_USER_INPUT, MSG_DELTA}, data : { <<1>>, <<2, 1>> }]

InputInit ==
    /\ lecs = createLecs
    /\ rLast = [op |-> "none"]

\* The connection phase registers the player of a user.
IRegister ==
    /\ \E u \in Users, eid \in {1, 2} :
         lecs' = [lecs EXCEPT !.players = PlayerRegistry_registerPlayer(@, u, eid)]
    /\ rLast' = [op |-> "none"]
    /\ UNCHANGED <<frameVars, queueVars, hostVars, gTicks, gDeltas, gSnaps, gConnects,
                   gEntities, vecs>>

\* The connection phase processes the disconnect event of a user.
IUnregister ==
    /\ \E u \in Users :
         /\ MapHas(lecs.players, u)
         /\ lecs' = [lecs EXCEPT !.players = PlayerRegistry_unregisterPlayer(@, u)]
    /\ rLast' = [op |-> "none"]
    /\ UNCHANGED <<frameVars, queueVars, hostVars, gTicks, gDeltas, gSnaps, gConnects,
                   gEntities, vecs>>

\* transport.onMessage((userId, messageId, data) => hostMessageQueue.push(...))
IPush ==
    /\ Len(lecs.hostMessageQueue) < MaxBatch
    /\ \E m \in InputMessages :
         lecs' = [lecs EXCEPT !.hostMessageQueue =
                      HostMessageQueue_push(@, m.userId, m.messageId, m.data)]
    /\ rLast' = [op |-> "none"]
    /\ UNCHANGED <<frameVars, queueVars, hostVars, gTicks, gDeltas, gSnaps, gConnects,
                   gEntities, vecs>>

\* l_s_tick_receiveMessages(world)
IReceive ==
    /\ lecs.hostMessageQueue # <<>>
    /\ lecs' = l_s_tick_receiveMessages([lecs |-> lecs]).lecs
    /\ rLast' = [ op     |-> "receiveMessages",
                  before |-> lecs.players,
                  batch  |-> lecs.hostMessageQueue,
                  after  |-> l_s_tick_receiveMessages([lecs |-> lecs]).lecs.players ]
    /\ UNCHANGED <<frameVars, queueVars, hostVars, gTicks, gDeltas, gSnaps, gConnects,
                   gEntities, vecs>>

InputNext == IRegister \/ IUnregister \/ IPush \/ IReceive

InitInput ==
    /\ InputInit /\ FrameIdle /\ QueueIdle /\ HostIdle /\ ClientIdle
    /\ gTicks = 0 /\ gDeltas = <<>> /\ gSnaps = {} /\ gConnects = <<>> /\ gEntities = <<>>

SpecInput == InitInput /\ [][InputNext]_vars

\* The positions in a batch of the input messages of a user.
InputsOf(batch, userId) ==
    { i \in 1..Len(batch) : batch[i].userId = userId /\ batch[i].messageId = MSG_USER_INPUT }

\* C22: after the message phase the input of every registered player is the
\* first payload byte of the last MSG_USER_INPUT message of its user in the
\* drained batch, or what it was if the batch holds none; a message with
\* another id or of a user without registration changes no input: the
\* registry holds the same players with the same entities, nothing else.
C22_LastInputWins ==
    rLast.op = "receiveMessages" =>
        /\ Len(rLast.after) = Len(rLast.before)
        /\ lecs.hostMessageQueue = <<>>
        /\ \A k \in 1..Len(rLast.before) :
               LET b  == rLast.before[k]
                   a  == rLast.after[k]
                   of == InputsOf(rLast.batch, b.key)
               IN  /\ a.key = b.key
                   /\ a.val.eid = b.val.eid
                   /\ a.val.input =
                          IF of = {} THEN b.val.input
                          ELSE rLast.batch[CHOOSE i \in of : \A j \in of : j <= i].data[1]

\* A batch with two input messages of a registered user, the last one with a
\* two-byte payload, a message of another id and an input message of a user
\* without registration.
C22_Witness ==
    /\ rLast.op = "receiveMessages"
    /\ Len(rLast.batch) = MaxBatch
    /\ MapHas(rLast.before, "u1") /\ ~MapHas(rLast.before, "u2")
    /\ \E i \in InputsOf(rLast.batch, "u2") : TRUE
    /\ \E i \in 1..Len(rLast.batch) : rLast.batch[i].messageId # MSG_USER_INPUT
    /\ MapGet(rLast.after, "u1").input = 2
    /\ MapGet(rLast.before, "u1").input = 1

---------------------------------------------------------------------------
(* Specification SpecIdMap: buildRawIdMap applied to the id map of a       *)
(* DeserializeContext whose keys and values carry version bits.            *)

\* createEcsWorld: withVersioning(12).
VersionBits == 12

\* getId(entityIndex, eid) of an entity index with VersionBits version bits:
\* the remaining 32 - VersionBits bits of the id.
getId(eid) == eid % (2 ^ (32 - VersionBits))

MaxIdMapLen == 3

\* Versioned ids of different slots: versions 0, 1, 3 and 2047.
SourceIds == { 1, 2 ^ 20 + 2, 3 * 2 ^ 20 + 3, 2047 * 2 ^ 20 + 4 }

TargetIds == { 2, 2 ^ 20 + 1, 2047 * 2 ^ 20 + 7 }

\* The id maps of up to MaxIdMapLen entries, in every insertion order.
IdMaps ==
    { m \in UNION { [1..n -> [key : SourceIds, val : TargetIds]] : n \in 0..MaxIdMapLen } :
        \A i, j \in 1..Len(m) : i # j => m[i].key # m[j].key }

IdMapInit ==
    /\ \E m \in IdMaps : vecs = <<[createVecs EXCEPT !.idMap = m]>>
    /\ rLast = [op |-> "none"]

\* const rawIdMap = buildRawIdMap(this.idMap)
DoBuildRawIdMap ==
    /\ rLast.op = "none"
    /\ rLast' = [op |-> "buildRawIdMap", observerIdMap |-> vecs[1].idMap,
                  raw |-> buildRawIdMap(vecs[1].idMap)]
    /\ UNCHANGED <<frameVars, queueVars, hostVars, serverVars, vecs>>

IdMapNext == DoBuildRawIdMap

InitIdMap == IdMapInit /\ FrameIdle /\ QueueIdle /\ HostIdle /\ ServerIdle

SpecIdMap == InitIdMap /\ [][IdMapNext]_vars

---------------------------------------------------------------------------
(* Specification SpecSlots: buildRawIdMap applied to an id map that was     *)
(* never pruned and holds several generations of one slot, each mirrored by *)
(* its own local entity.                                                    *)

\* Versioned ids of slot 1 in generations 0, 1 and 2, and one of slot 2.
SlotSourceIds == { 1, 2 ^ 20 + 1, 2 * 2 ^ 20 + 1, 2 }

SlotIdMaps ==
    { m \in UNION { [1..n -> [key : SlotSourceIds, val : TargetIds]] : n \in 0..MaxIdMapLen } :
        \A i, j \in 1..Len(m) : i # j => (m[i].key # m[j].key /\ m[i].val # m[j].val) }

SlotInit ==
    /\ \E m \in SlotIdMaps : vecs = <<[createVecs EXCEPT !.idMap = m]>>
    /\ rLast = [op |-> "none"]

InitSlots == SlotInit /\ FrameIdle /\ QueueIdle /\ HostIdle /\ ServerIdle

SpecSlots == InitSlots /\ [][IdMapNext]_vars

\* The position of the last entry of m whose key has the slot bits of slot.
LastOfSlot(m, slot) ==
    CHOOSE i \in 1..Len(m) :
        /\ getId(m[i].key) = slot
        /\ \A j \in (i + 1)..Len(m) : getId(m[j].key) # slot

\* C30: when the id map holds several server ids with the same slot bits
\* and different generations, the raw id map maps the slot to the slot of
\* the local mirror of the entity added last, and to no mirror of an older
\* one.
C30_LastGenerationWins ==
    rLast.op = "buildRawIdMap" =>
        LET m == vecs[1].idMap
        IN  \A i \in 1..Len(m) :
                /\ MapHas(rLast.raw, getId(m[i].key))
                /\ MapGet(rLast.raw, getId(m[i].key))
                     = getId(m[LastOfSlot(m, getId(m[i].key))].val)

\* Three generations of slot 1 in the id map; the raw map holds the mirror
\* of the third and not those of the first two.
C30_Witness ==
    /\ rLast.op = "buildRawIdMap"
    /\ Len(vecs[1].idMap) = 3
    /\ \A i \in 1..3 : getId(vecs[1].idMap[i].key) = 1
    /\ MapGet(rLast.raw, 1) = getId(vecs[1].idMap[3].val)
    /\ MapGet(rLast.raw, 1) # getId(vecs[1].idMap[1].val)
    /\ MapGet(rLast.raw, 1) # getId(vecs[1].idMap[2].val)

---------------------------------------------------------------------------
(* Specification SpecSession: the server of SpecServer and, for every      *)
(* channel, the client world at its other end.  Clients join and stay and  *)
(* send no input.                                                          *)

\* The channel hands its next message to the client: createVecs,
\* transport.onMessage((messageId, data) => messageQueue.push(messageId, data)).
CDeliver ==
    /\ \E c \in 1..Len(vecs) :
         /\ vecs[c].read < Len(chans[c].out)
         /\ vecs' = [vecs EXCEPT ![c].queue =
                                     MessageQueue_push(@, chans[c].out[vecs[c].read + 1].messageId,
                                                       chans[c].out[vecs[c].read + 1].data),
                                 ![c].read = @ + 1]
    /\ UNCHANGED <<frameVars, queueVars, hostVars, serverVars, routerVars>>

SessionNext == SAddClient \/ STick \/ CDeliver \/ CTick

InitSession == ServerInit /\ FrameIdle /\ QueueIdle /\ RouterIdle

SpecSession == InitSession /\ [][SessionNext]_vars

\* The client of channel c has applied every message sent to it, the first
\* of which was its only Snapshot, taken after at least one tick.
CaughtUp(c) ==
    /\ vecs[c].read = Len(chans[c].out)
    /\ vecs[c].queue = <<>>
    /\ Len(SnapshotsOn(c)) = 1
    /\ chans[c].out[1].messageId = MSG_SNAPSHOT
    /\ NumLE(NumOf(1), vecs[c].snapshotFrame)

\* C4: once a client that joined after tick F >= 1 has applied its Snapshot
\* and every Delta sent since, every entity the server had at the end of
\* tick F has a mirror on the client whose tracked fields hold the values
\* the server sent last.
C4_LateJoinerConverges ==
    \A c \in 1..Len(vecs) :
        CaughtUp(c) =>
            \A e \in 1..gEntities[vecs[c].snapshotFrame[2]] :
                \E l \in 1..vecs[c].entities :
                    /\ vecs[c].origin[l] = e
                    /\ l \notin vecs[c].removed
                    /\ vecs[c].store[l] = RowOf(lecs.shadow, getIndex(e))

\* The client of channel c was sent one Snapshot, as the first message, and
\* the Delta of the same tick after it, and has applied everything sent.
Joined(c) ==
    /\ vecs[c].read = Len(chans[c].out)
    /\ vecs[c].queue = <<>>
    /\ Len(chans[c].out) >= 2
    /\ Len(SnapshotsOn(c)) = 1
    /\ chans[c].out[1].messageId = MSG_SNAPSHOT
    /\ chans[c].out[2].messageId = MSG_DELTA

\* The local entities of client c that mirror the server entity e.
MirrorsOf(c, e) ==
    { l \in 1..vecs[c].entities : vecs[c].origin[l] = e /\ l \notin vecs[c].removed }

\* C23: once a joining client has applied its Snapshot and the Delta of the
\* following frame, every networked entity of the server has at most one
\* local mirror on it; the entity spawned for the client itself, which is in
\* the Snapshot and whose add is in that Delta, is not created twice.
C23_OneMirror ==
    \A c \in 1..Len(vecs) :
        Joined(c) => \A e \in 1..lecs.entities : Cardinality(MirrorsOf(c, e)) <= 1

---------------------------------------------------------------------------
(* Specification SpecFault: the server ticking while the send of some of   *)
(* its channels throws, from a new server and from one that has run        *)
(* 2^32 - 2 ticks.  The bodies are at rest.  rLast keeps how the last tick *)
(* call ended.                                                             *)

FaultInit == (ServerInit \/ ServerInitLong) /\ RouterIdle

\* lecs.tick(dt) as its caller sees it: thrown is the error that leaves the
\* call, "" when it returns.
FTick ==
    \E faulty \in SUBSET (1..Len(chans)) :
        /\ TickWith(AtRest, faulty)
        /\ rLast' = [ op     |-> "tick",
                      faulty |-> faulty,
                      thrown |-> LecsTickOn([lecs |-> lecs, ht |-> ht, chans |-> chans],
                                            AtRest, faulty).thrown ]

FaultNext == SAddClient \/ FTick

InitFault == FaultInit /\ FrameIdle /\ QueueIdle

SpecFault == InitFault /\ [][FaultNext]_vars

\* C16: a failure raised by send or broadcast during a tick reaches the
\* caller of tick as an error.
C16_SendFailureReachesCaller ==
    (rLast.op = "tick" /\ lecs.console # <<>>) => rLast.thrown # ""

\* ToUint32 of a frame number: what its 32-bit field gives back.
FrameField(n) == GetUint32(Uint32Bytes(n), 0)

DeltasOf(wire) == SelectSeq(wire, LAMBDA w : w.messageId = MSG_DELTA)

C28_OthersStillReceive ==
    (rLast.op = "tick" /\ lecs.connectionQueue = <<>>) =>
        \A i \in 1..Len(ht.clients) :
            ht.clients[i].val \notin rLast.faulty =>
                LET out == chans[ht.clients[i].val].out
                IN  /\ out # <<>>
                    /\ out[Len(out)].messageId = MSG_DELTA
                    /\ out[Len(out)].data = DeltasOf(lecs.wire)[1].data

---------------------------------------------------------------------------
(* Specification SpecWrap: a session that is 2^32 - 2 ticks old.  u1 joined *)
(* before the first tick; its client applied Snapshot 0 and every Delta up  *)
(* to frame 2^32 - 2.  The bodies are at rest.  The record of the messages  *)
(* sent on the channel starts afresh.                                       *)

WrapTicks == 3

\* transport.addClient('u1', channel) on the new server.
WrapJoin == HostTransport_addClient(LecsTransport, <<Channel_new>>, "u1", 1, <<>>)

\* The first tick: the Snapshot of frame 0 and the Delta of frame 1.
WrapFirst ==
    LecsTickOn([ lecs  |-> LecsObserve(spawnRoom(createLecs, 1), WrapJoin.calls, 1),
                 ht    |-> WrapJoin.ht,
                 chans |-> WrapJoin.chans ], AtRest, {})

\* Tick 2^32 - 2, after the ticks in between that changed the counters only.
WrapLast ==
    LecsTickOn([ lecs  |-> [WrapFirst.lecs EXCEPT !.frame = <<Limb - 1, Limb - 3>>,
                                                  !.ticks = <<Limb - 1, Limb - 3>>],
                 ht    |-> WrapFirst.ht,
                 chans |-> WrapFirst.chans ], AtRest, {})

WrapInit ==
    /\ lecs = WrapLast.lecs
    /\ ht = WrapLast.ht
    /\ chans = [WrapLast.chans EXCEPT ![1].out = <<>>]
    /\ hFired = {}
    /\ hLast = [chan |-> 0]
    /\ gTicks = 0
    /\ gDeltas = <<>>
    /\ gSnaps = {}
    /\ gConnects = <<>>
    /\ gEntities = <<>>
    /\ \E policy \in SnapshotPolicies :
         vecs = << [ApplyFrom(createVecs, WrapLast.chans[1].out, 1, policy)
                       EXCEPT !.log = <<>>] >>

\* lecs.tick(dt).
WTick ==
    /\ gTicks < WrapTicks
    /\ LET W == LecsTickOn([lecs |-> lecs, ht |-> ht, chans |-> chans], AtRest, {})
       IN  /\ lecs' = W.lecs
           /\ ht' = W.ht
           /\ chans' = W.chans
    /\ gTicks' = gTicks + 1
    /\ UNCHANGED <<hFired, hLast, gDeltas, gSnaps, gConnects, gEntities,
                   frameVars, queueVars, vecs, routerVars>>

WrapNext == SAddClient \/ WTick \/ CDeliver \/ CTick

InitWrap == WrapInit /\ FrameIdle /\ QueueIdle /\ RouterIdle

SpecWrap == InitWrap /\ [][WrapNext]_vars

\* A Delta of the client's log that was applied: its frame is greater than
\* the marker it met.
AppliedDelta(e) == e.messageId = MSG_DELTA /\ NumLT(e.marker, e.unpacked.frame)

\* C25: the channel keeps the order of its messages; the frames of the
\* Deltas a client applies are strictly increasing, and each is greater than
\* the frame of every Snapshot applied before it.
C25_AppliedFramesIncrease ==
    \A c \in 1..Len(vecs) :
        \A j \in 1..Len(vecs[c].log) :
            AppliedDelta(vecs[c].log[j]) =>
                \A i \in 1..(j - 1) :
                    (AppliedDelta(vecs[c].log[i]) \/ vecs[c].log[i].messageId = MSG_SNAPSHOT)
                        => NumLT(vecs[c].log[i].unpacked.frame, vecs[c].log[j].unpacked.frame)

---------------------------------------------------------------------------
(* Specification SpecDecode: one client world behind its channel, as the   *)
(* browser driver builds it: the channel's only callback pushes to the     *)
(* MessageQueue, the frame loop calls tick for as long as the page lives.  *)
(* The channel delivers well-formed messages and buffers shorter than the  *)
(* header.                                                                 *)

ShortBuffers == { <<>>, <<1, 0>> }

DecodeMessages ==
    { [messageId |-> MSG_SNAPSHOT, data |-> packSnapshot(NumOf(1), s)] : s \in SnapshotSamples }
    \cup { [messageId |-> MSG_DELTA,
            data |-> packDelta(NumOf(2), ObserverEncode(AddEvents(1)),
                               SoADiffEncode(<<SampleRow(-8)>>, <<>>, <<1>>))] }
    \cup [messageId : {MSG_SNAPSHOT, MSG_DELTA}, data : ShortBuffers]

DecodeInit ==
    /\ vecs = <<createVecs>>
    /\ ht = HostTransport_new
    /\ chans = Channel_onMessage(<<Channel_new>>, 1, "messageQueue.push")
    /\ hFired = {}
    /\ hLast = [chan |-> 0]

\* The channel hands an inbound message to its callbacks.
DPush ==
    /\ vecs[1].read < MaxMessages
    /\ ~chans[1].destroyed /\ chans[1].handlers # <<>>
    /\ \E m \in DecodeMessages :
         vecs' = [vecs EXCEPT ![1].queue = MessageQueue_push(@, m.messageId, m.data),
                              ![1].read = @ + 1]
    /\ UNCHANGED <<frameVars, queueVars, hostVars, serverVars, routerVars>>

DecodeNext == DPush \/ CTick

InitDecode == DecodeInit /\ FrameIdle /\ QueueIdle /\ ServerIdle /\ RouterIdle

SpecDecode == InitDecode /\ [][DecodeNext]_vars

\* C15: once decoding a message has failed on a client, that client is
\* disconnected: its channel is destroyed and hands it no further message.
C15_DecodeFailureDisconnects ==
    \A c \in 1..Len(vecs) :
        vecs[c].console # {} =>
            /\ chans[c].destroyed
            /\ chans[c].handlers = <<>>

\* The message unpacks without an error.
Unpacks(m) ==
    IF m.messageId = MSG_SNAPSHOT THEN unpackSnapshot(m.data) # RangeError
    ELSE unpackDelta(m.data) # RangeError

\* C26: every message pushed to the client's MessageQueue is handled exactly
\* once and in push order: the tick that drains a batch applies, or discards
\* by the frame check, every message of the batch that can be unpacked, also
\* those behind a message whose unpacking failed.
C26_EveryMessageHandled ==
    [][ \A c \in 1..Len(vecs) :
            (vecs[c].queue # <<>> /\ vecs'[c].queue = <<>>) =>
                LET good == SelectSeq(vecs[c].queue, Unpacks)
                IN  /\ Len(vecs'[c].log) = Len(good)
                    /\ \A i \in 1..Len(good) :
                           vecs'[c].log[i].messageId = good[i].messageId ]_vars

---------------------------------------------------------------------------
(* Specification SpecRouter: the HostTransport router driven through its   *)
(* whole interface.  rLast keeps, for the last operation, the router and   *)
(* the channels after it, the observer calls it made and, where the        *)
(* operation is compared with the state it started from, that state.       *)

MaxRouterChannels == 2

MaxOut == 1

RouterData == { <<7>> }

RouterState == [ht |-> ht, chans |-> chans]

RouterInit ==
    /\ ht = HostTransport_new
    /\ chans = <<>>
    /\ hFired = {}
    /\ hLast = [chan |-> 0]
    /\ rLast = [op |-> "none"]

\* transport.addClient(userId, connection) with a channel not used before.
RAddClient ==
    /\ Len(chans) < MaxRouterChannels
    /\ \E u \in Users :
         LET c == Len(chans) + 1
             r == HostTransport_addClient(ht, Append(chans, Channel_new), u, c, <<>>)
         IN  /\ ht' = r.ht
             /\ chans' = r.chans
             /\ rLast' = [ op |-> "addClient", userId |-> u, after |-> [ht |-> r.ht, chans |-> r.chans], calls |-> r.calls ]
    /\ UNCHANGED <<hFired, hLast, frameVars, queueVars, serverVars, vecs>>

\* transport.removeClient(userId), registered or not.
RRemoveClient ==
    /\ \E u \in Users :
         LET r == HostTransport_removeClient(ht, chans, u)
         IN  /\ ht' = r.ht
             /\ chans' = r.chans
             /\ rLast' = [ op |-> "removeClient", userId |-> u, before |-> RouterState,
                           after |-> [ht |-> r.ht, chans |-> r.chans], calls |-> r.calls,
                           seen |-> r.seen ]
    /\ UNCHANGED <<hFired, hLast, frameVars, queueVars, serverVars, vecs>>

\* A channel is handed an inbound message, destroyed or not.
RDeliver ==
    /\ \E c \in 1..Len(chans), m \in InboundSamples :
         rLast' = [ op |-> "deliver", chan |-> c, after |-> RouterState,
                    calls |-> Channel_deliver(ht, chans, c, m.messageId, m.data) ]
    /\ UNCHANGED <<ht, chans, hFired, hLast, frameVars, queueVars, serverVars, vecs>>

\* onMessage / onConnect / onDisconnect.  Two observers of disconnects, one of messages and one of connects.
RSubscribe ==
    /\ \E h \in Handlers :
         \E t \in { HostTransport_onMessage(ht, "h1"), HostTransport_onConnect(ht, "h1"),
                    HostTransport_onDisconnect(ht, h) } :
             /\ ht' = t
             /\ rLast' = [ op |-> "subscribe", after |-> [ht |-> t, chans |-> chans], calls |-> <<>> ]
    /\ UNCHANGED <<chans, hFired, hLast, frameVars, queueVars, serverVars, vecs>>

\* The messages handed to the channels so far.
Sent == Concat([ c \in 1..Len(chans) |-> chans[c].out ])

CanSend == Len(Sent) < MaxOut

\* transport.send(userId, messageId, data) with a buffer of the caller.
RSend ==
    /\ CanSend
    /\ \E u \in Users, d \in RouterData :
         LET r == HostTransport_sendBuffer(ht, chans, <<ArrayBuffer_new(d)>>, u, MSG_SNAPSHOT, 1)
         IN  /\ chans' = r.chans
             /\ rLast' = [ op |-> "send", userId |-> u, data |-> d, before |-> RouterState,
                           after |-> [ht |-> ht, chans |-> r.chans], calls |-> <<>>,
                           heap |-> r.heap, error |-> r.error ]
    /\ UNCHANGED <<ht, hFired, hLast, frameVars, queueVars, serverVars, vecs>>

\* transport.broadcast(messageId, data) with a buffer of the caller.
RBroadcast ==
    /\ CanSend
    /\ \E d \in RouterData :
         LET r == HostTransport_broadcastBuffer(ht, chans, <<ArrayBuffer_new(d)>>, MSG_DELTA, 1)
         IN  /\ chans' = r.chans
             /\ rLast' = [ op |-> "broadcast", data |-> d, before |-> RouterState,
                           after |-> [ht |-> ht, chans |-> r.chans], calls |-> <<>>,
                           heap |-> r.heap, error |-> r.error, sends |-> r.sends ]
    /\ UNCHANGED <<ht, hFired, hLast, frameVars, queueVars, serverVars, vecs>>

\* The function returned by onMessage / onConnect / onDisconnect.
Unsubscribe(kind, t, h) ==
    CASE kind = "message"    -> HostTransport_offMessage(t, h)
      [] kind = "connect"    -> HostTransport_offConnect(t, h)
      [] kind = "disconnect" -> HostTransport_offDisconnect(t, h)

RUnsubscribe ==
    /\ \E h \in Handlers, kind \in {"message", "connect", "disconnect"} :
         /\ ht' = Unsubscribe(kind, ht, h)
         /\ rLast' = [ op |-> "unsubscribe", kind |-> kind, handler |-> h,
                       after |-> [ht |-> Unsubscribe(kind, ht, h), chans |-> chans],
                       calls |-> <<>> ]
    /\ UNCHANGED <<chans, hFired, hLast, frameVars, queueVars, serverVars, vecs>>

\* transport.destroy()
RDestroy ==
    /\ LET r == HostTransport_destroy(ht, chans)
       IN  /\ ht' = r.ht
           /\ chans' = r.chans
           /\ rLast' = [ op |-> "destroy", before |-> RouterState,
                         after |-> [ht |-> r.ht, chans |-> r.chans], calls |-> r.calls ]
    /\ UNCHANGED <<hFired, hLast, frameVars, queueVars, serverVars, vecs>>

\* connection.destroy() called on a channel by its owner.
RChannelDestroy ==
    /\ \E c \in 1..Len(chans) :
         /\ chans' = Channel_destroy(chans, c)
         /\ rLast' = [ op |-> "channelDestroy", chan |-> c, after |-> [ht |-> ht, chans |-> Channel_destroy(chans, c)],
                       calls |-> <<>> ]
    /\ UNCHANGED <<ht, hFired, hLast, frameVars, queueVars, serverVars, vecs>>

RouterNext ==
    \/ RAddClient \/ RRemoveClient \/ RDeliver \/ RSubscribe
    \/ RSend \/ RBroadcast
    \/ RUnsubscribe \/ RDestroy \/ RChannelDestroy

InitRouter == RouterInit /\ FrameIdle /\ QueueIdle /\ ServerIdle /\ ClientIdle

SpecRouter == InitRouter /\ [][RouterNext]_vars

\* C11: removeClient(userId) of a registered client unsubscribes from the
\* channel, then calls every disconnect observer once, then destroys the
\* channel: the observers find the channel without the router's callback and
\* not yet destroyed; afterwards a message of that channel is re-emitted to
\* nobody, and send(userId) and broadcast put nothing on that channel.  For
\* an unregistered userId no observer is called and nothing changes.
C11_RemoveClient ==
    rLast.op = "removeClient" =>
        LET b == rLast.before
            a == rLast.after
            u == rLast.userId
        IN  IF MapHas(b.ht.clients, u)
            THEN LET c == MapGet(b.ht.clients, u)
                 IN  /\ rLast.calls = DisconnectCalls(b.ht, u)
                     /\ rLast.seen[c].handlers =
                            SetDelete(b.chans[c].handlers, [userId |-> u, chan |-> c])
                     /\ rLast.seen[c].destroyed = b.chans[c].destroyed
                     /\ a.chans[c].destroyed
                     /\ \A m \in InboundSamples :
                            /\ Channel_deliver(a.ht, rLast.seen, c, m.messageId, m.data) = <<>>
                            /\ Channel_deliver(a.ht, a.chans, c, m.messageId, m.data) = <<>>
                     /\ \A d \in RouterData :
                            /\ HostTransport_send(a.ht, a.chans, u, MSG_DELTA, d) = a.chans
                            /\ HostTransport_broadcast(a.ht, a.chans, MSG_DELTA, d)[c].out =
                                   a.chans[c].out
            ELSE /\ rLast.calls = <<>>
                 /\ a = b

\* removeClient of a registered client called two disconnect observers while
\* a message observer and another client were registered.
C11_Witness ==
    /\ rLast.op = "removeClient"
    /\ MapHas(rLast.before.ht.clients, rLast.userId)
    /\ Len(rLast.calls) = 2
    /\ rLast.before.ht.messageHandlers # <<>>
    /\ rLast.after.ht.clients # <<>>

\* C12: broadcast(messageId, data) calls send once on every channel
\* registered at the call, each time with a new buffer that holds the bytes
\* of data: no two sends share a buffer and none is given data itself, so
\* although every channel detaches the buffer it is given, every recipient
\* receives the bytes and the caller's buffer stays whole.
C12_BroadcastCopies ==
    rLast.op = "broadcast" =>
        LET b == rLast.before
            a == rLast.after
            n == Len(b.ht.clients)
        IN  /\ rLast.error = ""
            /\ Len(rLast.sends) = n
            /\ \A i \in 1..n :
                   /\ rLast.sends[i].chan = b.ht.clients[i].val
                   /\ rLast.sends[i].ref # 1
                   /\ rLast.heap[rLast.sends[i].ref].bytes = rLast.data
                   /\ \A j \in 1..n : i # j => rLast.sends[i].ref # rLast.sends[j].ref
            /\ rLast.heap[1] = ArrayBuffer_new(rLast.data)
            /\ \A c \in 1..Len(b.chans) :
                   a.chans[c].out =
                       IF \E i \in 1..n : b.ht.clients[i].val = c
                       THEN Append(b.chans[c].out,
                                   [messageId |-> MSG_DELTA, data |-> rLast.data])
                       ELSE b.chans[c].out

\* A broadcast reached two registered channels.
C12_Witness ==
    /\ rLast.op = "broadcast"
    /\ Len(rLast.sends) = 2
    /\ rLast.heap[rLast.sends[1].ref].detached
    /\ rLast.heap[rLast.sends[2].ref].detached

\* No handler is called any more: not by a message of any channel, not by
\* a client that is added, not by a client that is removed.
Silent(a) ==
    /\ \A c \in 1..Len(a.chans), m \in InboundSamples :
           Channel_deliver(a.ht, a.chans, c, m.messageId, m.data) = <<>>
    /\ \A u \in Users :
           /\ HostTransport_addClient(a.ht, Append(a.chans, Channel_new), u,
                                      Len(a.chans) + 1, <<>>).calls = <<>>
           /\ HostTransport_removeClient(a.ht, a.chans, u).calls = <<>>

\* C13: destroy() of the router and of a channel, removeClient and the
\* unsubscribe functions are idempotent: called again right away they
\* change nothing and call no observer; after destroy() of the router no
\* handler is called again, after destroy() of a channel none through it.
C13_Idempotent ==
    LET a == rLast.after
    IN  /\ rLast.op = "destroy" =>
               /\ HostTransport_destroy(a.ht, a.chans) =
                      [ht |-> a.ht, chans |-> a.chans, calls |-> <<>>]
               /\ Silent(a)
        /\ rLast.op = "removeClient" =>
               LET r == HostTransport_removeClient(a.ht, a.chans, rLast.userId)
               IN  r.ht = a.ht /\ r.chans = a.chans /\ r.calls = <<>>
        /\ rLast.op = "unsubscribe" =>
               Unsubscribe(rLast.kind, a.ht, rLast.handler) = a.ht
        /\ rLast.op = "channelDestroy" =>
               /\ Channel_destroy(a.chans, rLast.chan) = a.chans
               /\ \A m \in InboundSamples :
                      Channel_deliver(a.ht, a.chans, rLast.chan, m.messageId, m.data) = <<>>

\* destroy() of a router with a message observer, two disconnect observers
\* and a client, one channel of which was registered and then replaced.
C13_Witness ==
    /\ rLast.op = "destroy"
    /\ rLast.before.ht.messageHandlers # <<>>
    /\ Len(rLast.calls) = 2
    /\ \E c \in 1..Len(rLast.after.chans) :
           /\ ~rLast.after.chans[c].destroyed
           /\ rLast.after.chans[c].handlers # <<>>


\* C27: the router holds exactly one inbound subscription per registered
\* client id, on the channel stored for that id: every subscription a channel
\* carries belongs to the id whose stored channel it is, also after addClient
\* for an id that was registered already, when the replaced channel must no
\* longer carry one.
C27_OneSubscription ==
    /\ \A c \in 1..Len(chans) :
           \A i \in 1..Len(chans[c].handlers) :
               LET h == chans[c].handlers[i]
               IN  /\ MapHas(ht.clients, h.userId)
                   /\ MapGet(ht.clients, h.userId) = c
                   /\ \A j \in 1..Len(chans[c].handlers) :
                          chans[c].handlers[j].userId = h.userId => j = i
    /\ \A i \in 1..Len(ht.clients) :
           ~chans[ht.clients[i].val].destroyed =>
               \E j \in 1..Len(chans[ht.clients[i].val].handlers) :
                   chans[ht.clients[i].val].handlers[j].userId = ht.clients[i].key

=============================================================================
